---- MODULE Spec2Model ----
(***************************************************************************)
(* A model of the statute viewer LawDetailView (src/unnamed/part_008,      *)
(* second definition, lines 673-1607): the structural segmenter            *)
(* (renderFormattedText), the table-of-contents effect, the citation       *)
(* extractor and law-name resolver (renderParagraphWithReferences,         *)
(* cleanLawName), the hover tooltip with its snippet cache                 *)
(* (fetchPopoverContent), the in-page search navigation (scrollToMatch)    *)
(* and the timed emphasis (triggerHighlight).                              *)
(*                                                                         *)
(* Text is a sequence of characters; a character is a string naming one    *)
(* code point.  CJK characters are written in pinyin, with the character   *)
(* itself in the comment of the definition that introduces it.             *)
(***************************************************************************)
EXTENDS Integers, Sequences, FiniteSets, TLC

VARIABLES
  \* ---- document text, segmenter loop and table of contents
  text,                   \* fullText.split("\n"): the lines, each a sequence of characters
  lineIdx,                \* index (0-based) of the next line of lines.forEach
  currentArticleId,       \* renderFormattedText: currentArticleId ("" is <<>>)
  currentArticleContent,  \* renderFormattedText: currentArticleContent
  isPreamble,             \* renderFormattedText: isPreamble
  resultNodes,            \* renderFormattedText: resultNodes
  segPc,                  \* "loop" while lines are consumed, "done" after the final flush
  toc,                    \* useState toc
  tocPc,                  \* "idle" before the TOC effect has run, "done" after
  \* ---- one paragraph and its citations
  law_name,               \* law.law_name, the title of the open document
  paragraphText,          \* the paragraph handed to renderParagraphWithReferences
  result,                 \* the nodes it renders: text fragments and anchors
  citePc,                 \* "text" before the paragraph is rendered, "rendered" after
  lastEvent,              \* what the last handler run on an anchor did
  openLinkCalls,          \* the destinations handed to the host's onOpenLink so far
  \* ---- the hover tooltip
  pointer,                \* where the mouse is: outside, on an anchor or on the popover
  popoverState,           \* useState popoverState; at is the anchor that set top/left
  layout,                 \* where the hovered anchor, the container and the viewport are, in px
  snippetCache,           \* snippetCache.current: a function of cache keys
  snippetCalls,           \* the getArticleSnippet calls made so far, in order
  requests,               \* the calls (indices of snippetCalls) still awaiting a response
  hideTimeoutRef,         \* hideTimeoutRef.current: the id of the hide timer set last, 0 for null
  hideTimers,             \* the hide timers pending: id, time of setting, time due
  lastEnter,              \* the time of the last onMouseEnter of an anchor or the popover
  session,                \* the tooltip session: counts the hovers begun and the hides
  \* ---- the timed emphasis
  article_number,         \* law.article_number, the initial target
  now,                    \* the time, in ms
  emphasised,             \* the ids of the elements carrying the emphasis classes
  timers,                 \* the pending setTimeout callbacks of the emphasis
  navigatedAt,            \* per element id, when triggerHighlight last ran on it (-1: never)
  initialPc,              \* the initial-target effect: "idle", "scheduled" or "done"
  \* ---- in-page search
  domMatches,             \* document.querySelectorAll(".law-search-match").length
  activeMatch,            \* the match carrying law-search-match-active (-1: none)
  ringed,                 \* the matches carrying ring-2 and ring-warning-content/50
  matchCount,             \* useState matchCount
  currentMatchIndex,      \* useState currentMatchIndex
  searchTimers,           \* the pending 100 ms timers of the query effect
  lastNav,                \* what the last next/previous did: [op, from, streak]
  \* ---- the primary document fetch
  isLoading,              \* useState isLoading
  error,                  \* useState error (NULL or the message)
  fetchPc,                \* fetchFullText: "mount", "inflight", "resolved", "rejected",
                          \* "loaded" or "failed"
  source_file,            \* law.source_file, the document the view is given
  staleFetches,           \* the getFullText calls of earlier documents still outstanding
  changes,                \* how often the view was given another document
  \* ---- another LawDetailView that App keeps mounted, earlier in the document
  otherElementIds,        \* the ids of the articles it has rendered
  otherMatches,           \* the number of .law-search-match elements in it
  \* ---- the query of the in-page search
  searchQuery,            \* useState searchQuery: the value of the search input
  debouncedQuery,         \* useDebounce(searchQuery, 300)
  debounceTimers,         \* the pending handlers of useDebounce: [value, at]
  lastKeystroke,          \* when searchQuery was last set
  bodyMatches,            \* the <mark> elements the body holds whenever it is shown
  rendered                \* what the paragraph shows: highlightContent(result)

segVars    == <<text, lineIdx, currentArticleId, currentArticleContent, isPreamble,
                resultNodes, segPc, toc, tocPc>>
citeVars   == <<law_name, paragraphText, result, rendered, citePc, lastEvent,
                openLinkCalls>>
hoverVars  == <<pointer, popoverState, layout, snippetCache, snippetCalls, requests,
                hideTimeoutRef, hideTimers, lastEnter, session>>
flashVars  == <<article_number, now, emphasised, timers, navigatedAt, initialPc>>
searchVars == <<domMatches, activeMatch, ringed, matchCount, currentMatchIndex,
                searchTimers, lastNav>>
docVars    == <<source_file, staleFetches, changes>>
loadVars   == <<isLoading, error, fetchPc, docVars>>
otherVars  == <<otherElementIds, otherMatches>>
queryVars  == <<searchQuery, debouncedQuery, debounceTimers, lastKeystroke,
                bodyMatches>>
vars       == <<segVars, citeVars, hoverVars, flashVars, searchVars, loadVars,
                otherVars, queryVars>>

-----------------------------------------------------------------------------
(* Characters *)

DI    == "di"       \* 第
TIAO  == "tiao"     \* 条
BIAN  == "bian"     \* 编
FEN   == "fen"      \* 分
ZHANG == "zhang"    \* 章
JIE   == "jie"      \* 节
ZHI   == "zhi"      \* 之
FA    == "fa"       \* 法
BEN   == "ben"      \* 本
SP    == " "        \* a space
ZONG  == "zong"     \* 总, standing for any CJK character with no role in a pattern
LBOOK == "<<"       \* 《
RBOOK == ">>"       \* 》
DUN   == "dun"      \* 、  (U+3001, not in U+4E00..U+9FA5)
FWCOMMA == "fwcomma"  \* ，
COMMA == ","        \* ,
HE    == "he"       \* 和
JI2   == "ji2"      \* 及

\* [一二三四五六七八九十百]
TocNumerals == {"yi", "er", "san", "si", "wu", "liu", "qi", "ba", "jiu", "shi", "bai"}
\* [一二三四五六七八九十百千万零]
ArticleNumerals == TocNumerals \cup {"qian", "wan", "ling"}

\* \s, as far as the inputs of this model go
Whitespace == {SP, "\t"}

\* the characters of the model outside [一-龥]
NonCJK == Whitespace \cup
          {LBOOK, RBOOK, DUN, FWCOMMA, COMMA, "fwperiod", "fwsemicolon", "fwlparen",
           "fwrparen", "(", ")"}

IsWs(c)  == c \in Whitespace
IsCJK(c) == c \notin NonCJK

-----------------------------------------------------------------------------
(* Bounds of the model *)

MaxSegLines == 3       \* lines of a document handed to the segmenter
MaxTocLines == 5       \* lines of a document handed to the TOC effect
MaxPieces == 4         \* pieces of a paragraph
MaxSessions == 4       \* hovers begun and hides, together
MaxTime == 4000        \* the time up to which the clock runs, in ms
TickMs == 500          \* the longest step of the clock, in ms
MaxTimers == 2         \* emphasis timers pending at a click
MaxMatches == 5        \* matches of a query on the page
MaxSearchTimers == 2   \* timers of the query effect pending at once
MaxOtherMatches == 1   \* matches of the query in another open view
MaxChanges == 3        \* changes of the document a view is given
TypingUntil == 1500    \* the time up to which the search input is edited, in ms
MaxHoverTime == 400    \* the time up to which the clock runs while the mouse moves, in ms

-----------------------------------------------------------------------------
(* String primitives of JavaScript, on sequences of characters *)

Min(a, b) == IF a < b THEN a ELSE b

\* s.substring(from, to) with 1-based inclusive bounds
Sub(s, from, to) == IF from > to THEN <<>> ELSE SubSeq(s, from, to)

\* whether pat occurs in s at (1-based) position p
HasAt(s, p, pat) ==
  /\ p >= 1
  /\ p + Len(pat) - 1 <= Len(s)
  /\ \A k \in 1..Len(pat) : s[p + k - 1] = pat[k]

StartsWith(s, pat) == HasAt(s, 1, pat)
EndsWith(s, pat)   == HasAt(s, Len(s) - Len(pat) + 1, pat)
Includes(s, pat)   == \E p \in 1..(Len(s) + 1) : HasAt(s, p, pat)

\* s.lastIndexOf(pat) as a 1-based position, 0 when pat does not occur
LastIndexOf(s, pat) ==
  LET ps == {p \in 1..(Len(s) + 1) : HasAt(s, p, pat)}
  IN  IF ps = {} THEN 0 ELSE CHOOSE p \in ps : \A q \in ps : q <= p

\* the last position of the maximal run of characters of `class` that starts at p
\* (p - 1 when s[p] is not in the class)
RECURSIVE RunEnd(_, _, _)
RunEnd(s, p, class) ==
  IF p <= Len(s) /\ s[p] \in class THEN RunEnd(s, p + 1, class) ELSE p - 1

\* the same for the characters outside `excluded`
RECURSIVE RunEndNot(_, _, _)
RunEndNot(s, p, excluded) ==
  IF p <= Len(s) /\ s[p] \notin excluded THEN RunEndNot(s, p + 1, excluded) ELSE p - 1

\* the first position >= p that holds no whitespace (Len(s)+1 when there is none)
SkipWs(s, p) == RunEnd(s, p, Whitespace) + 1

\* the last position <= q that holds no whitespace (0 when there is none)
RECURSIVE SkipWsBack(_, _)
SkipWsBack(s, q) == IF q >= 1 /\ IsWs(s[q]) THEN SkipWsBack(s, q - 1) ELSE q

\* String.prototype.trim
Trim(s) == Sub(s, SkipWs(s, 1), SkipWsBack(s, Len(s)))

\* ^\s*第[nums]+<unit> : the position of the last character matched, 0 on no match
PrefixEnd(s, nums, unit) ==
  LET a == SkipWs(s, 1)
      e == RunEnd(s, a + 1, nums)
  IN  IF a <= Len(s) /\ s[a] = DI /\ e >= a + 1 /\ HasAt(s, e + 1, unit)
      THEN e + Len(unit) ELSE 0

\* null and undefined: a value no string equals
NULL == <<"null">>
\* !x for x a string, null or undefined
Falsy(x) == x = NULL \/ x = <<>>

-----------------------------------------------------------------------------
(* The primary document fetch and what the view shows *)

LoadFailed == <<"jia zai quan wen shi bai, qing shao hou zai shi.">>  \* 加载全文失败，请稍后再试。

\* {isLoading && (...)}: the loading state
ShowsLoading == isLoading

\* {error && (...)}: the error panel
ShowsError == ~Falsy(error)

\* a body that is rendered whatever the error
ShowsBody_ignoringError == ~isLoading

\* {!isLoading && !error && (<article>{renderFormattedText(fullText)}</article>)}
ShowsBody == ~isLoading /\ Falsy(error)

-----------------------------------------------------------------------------
(* Structural segmenter: renderFormattedText *)

\* /^\s*(第[一二三四五六七八九十百]+编\s+.*)/ and its three siblings
HeaderPattern(s, unit) ==
  LET e == PrefixEnd(s, TocNumerals, unit)
  IN  e > 0 /\ e + 1 <= Len(s) /\ IsWs(s[e + 1])

partPattern(s)    == HeaderPattern(s, <<BIAN>>)
subPartPattern(s) == HeaderPattern(s, <<FEN, BIAN>>)
chapterPattern(s) == HeaderPattern(s, <<ZHANG>>)
sectionPattern(s) == HeaderPattern(s, <<JIE>>)

\* /^\s*(第[一二三四五六七八九十百千万零]+条)(.*)/ : <<>> on no match, else
\* <<match[1], match[2]>>
articlePattern(s) ==
  LET e == PrefixEnd(s, ArticleNumerals, <<TIAO>>)
  IN  IF e = 0 THEN <<>>
      ELSE <<Sub(s, SkipWs(s, 1), e), Sub(s, e + 1, Len(s))>>

\* `article-${articleMatch[1]}`
ArticleId(label) == <<"article-">> \o label

\* the <div id={currentArticleId}> of flushArticle: the first line is shown as its
\* label (match[1]) followed by the rest (match[2]), the others as they are
ArticleNode(id, content) ==
  [kind  |-> "article",
   id    |-> id,
   lines |-> [k \in 1..Len(content) |->
                IF k = 1 /\ articlePattern(content[1]) # <<>>
                THEN articlePattern(content[1])[1] \o articlePattern(content[1])[2]
                ELSE content[k]]]

\* a header, preamble, meta, title or orphan element with its key/id
LineNode(kind, index, trimmedLine) ==
  [kind |-> kind, id |-> <<kind, index>>, lines |-> <<trimmedLine>>]

\* a flush that renders content[0] alone and loses the continuation lines
flushArticle_headOnly(nodes, id, content) ==
  IF id # <<>> THEN Append(nodes, ArticleNode(id, Sub(content, 1, 1))) ELSE nodes

\* flushArticle: resultNodes after the call
flushArticle(nodes, id, content) ==
  IF id # <<>> THEN Append(nodes, ArticleNode(id, content)) ELSE nodes

\* a flush that leaves the buffer as it is
flushedContent_kept(id, content) == content

\* flushArticle: currentArticleContent after the call
flushedContent(id, content) == IF id # <<>> THEN <<>> ELSE content

\* the header kind of a trimmed line, "" when it is none
HeaderKind(trimmedLine) ==
  IF partPattern(trimmedLine) THEN "part"
  ELSE IF subPartPattern(trimmedLine) THEN "subpart"
  ELSE IF chapterPattern(trimmedLine) THEN "chapter"
  ELSE IF sectionPattern(trimmedLine) THEN "section"
  ELSE ""

MU == "mu"   \* 目
LU == "lu"   \* 录
TONG == "tong"  \* 通
GUO == "guo"    \* 过

\* /^目\s*录$/
IsTocTitle(s) ==
  /\ Len(s) >= 2
  /\ s[1] = MU
  /\ s[Len(s)] = LU
  /\ \A k \in 2..(Len(s) - 1) : IsWs(s[k])

\* /^[（(].*[）)]$/.test(trimmedLine) || trimmedLine.endsWith("通过")
IsDocMeta(s) ==
  \/ /\ Len(s) >= 2
     /\ s[1] \in {"fwlparen", "("}
     /\ s[Len(s)] \in {"fwrparen", ")"}
  \/ EndsWith(s, <<TONG, GUO>>)

TitleMaxLen == 30

\* trimmedLine === law.law_name || (trimmedLine.length < 30 && !/[，。；]/.test(trimmedLine))
IsDocTitle(s, name) ==
  \/ s = name
  \/ /\ Len(s) < TitleMaxLen
     /\ \A k \in 1..Len(s) : s[k] \notin {FWCOMMA, "fwperiod", "fwsemicolon"}

\* the kind given to a line of the preamble
PreambleKind(s, name) ==
  IF IsTocTitle(s) THEN "toc-title"
  ELSE IF IsDocMeta(s) THEN "meta"
  ELSE IF IsDocTitle(s, name) THEN "title"
  ELSE "preamble"

\* a chain that sub-classifies whatever isPreamble says
OutsideArticleKind_alwaysPreamble(preamble, s, name) == PreambleKind(s, name)

\* else if (isPreamble) {...} else {orphan}: the kind of a line outside any article
OutsideArticleKind(preamble, s, name) ==
  IF preamble THEN PreambleKind(s, name) ELSE "orphan"

\* one iteration of lines.forEach
SegLine ==
  /\ ShowsBody
  /\ segPc = "loop"
  /\ lineIdx < Len(text)
  /\ lineIdx' = lineIdx + 1
  /\ LET trimmedLine == Trim(text[lineIdx + 1])
         hk == HeaderKind(trimmedLine)
         am == articlePattern(trimmedLine)
     IN  IF trimmedLine = <<>> THEN
           UNCHANGED <<currentArticleId, currentArticleContent, isPreamble, resultNodes>>
         ELSE IF hk # "" THEN
           /\ resultNodes' = Append(flushArticle(resultNodes, currentArticleId,
                                                  currentArticleContent),
                                    LineNode(hk, lineIdx, trimmedLine))
           /\ isPreamble' = FALSE
           /\ currentArticleId' = <<>>
           /\ currentArticleContent' = flushedContent(currentArticleId,
                                                      currentArticleContent)
         ELSE IF am # <<>> THEN
           /\ resultNodes' = flushArticle(resultNodes, currentArticleId,
                                          currentArticleContent)
           /\ isPreamble' = FALSE
           /\ currentArticleId' = ArticleId(am[1])
           /\ currentArticleContent' =
                 Append(flushedContent(currentArticleId, currentArticleContent),
                        trimmedLine)
         ELSE IF currentArticleId # <<>> THEN
           /\ currentArticleContent' = Append(currentArticleContent, trimmedLine)
           /\ UNCHANGED <<currentArticleId, isPreamble, resultNodes>>
         ELSE
           /\ resultNodes' = Append(resultNodes,
                 LineNode(OutsideArticleKind(isPreamble, trimmedLine, law_name),
                          lineIdx, trimmedLine))
           /\ UNCHANGED <<currentArticleId, currentArticleContent, isPreamble>>
  /\ UNCHANGED <<text, segPc, toc, tocPc>>
  /\ UNCHANGED <<citeVars, hoverVars, flashVars, searchVars, loadVars, otherVars, queryVars>>

\* the flushArticle() that follows the loop, and the return
SegEnd ==
  /\ ShowsBody
  /\ segPc = "loop"
  /\ lineIdx = Len(text)
  /\ resultNodes' = flushArticle(resultNodes, currentArticleId, currentArticleContent)
  /\ currentArticleId' = <<>>
  /\ currentArticleContent' = flushedContent(currentArticleId, currentArticleContent)
  /\ segPc' = "done"
  /\ UNCHANGED <<text, lineIdx, isPreamble, toc, tocPc>>
  /\ UNCHANGED <<citeVars, hoverVars, flashVars, searchVars, loadVars, otherVars, queryVars>>

-----------------------------------------------------------------------------
(* Table of contents: the effect on fullText *)

\* levels are kept in tenths, so that 1.5 is 15
LevelPart    == 10
LevelSubPart == 15
LevelChapter == 20
LevelSection == 30
\* let currentLevelLimit = 100
InitialLevelLimit == 1000

\* the if / else-if chain of header tests of the effect: the kind pushed for a
\* trimmed line, "" when none is
TocKind(trimmed) ==
  IF PrefixEnd(trimmed, TocNumerals, <<BIAN>>) > 0 THEN "part"
  ELSE IF PrefixEnd(trimmed, TocNumerals, <<FEN, BIAN>>) > 0 THEN "subpart"
  ELSE IF PrefixEnd(trimmed, TocNumerals, <<ZHANG>>) > 0 THEN "chapter"
  ELSE IF PrefixEnd(trimmed, TocNumerals, <<JIE>>) > 0 THEN "section"
  ELSE ""

TocLevel(kind) ==
  CASE kind = "part"    -> LevelPart
    [] kind = "subpart" -> LevelSubPart
    [] kind = "chapter" -> LevelChapter
    [] kind = "section" -> LevelSection

\* the elements of a finite set of integers in increasing order
RECURSIVE Ascending(_)
Ascending(S) ==
  IF S = {} THEN <<>>
  ELSE LET m == CHOOSE x \in S : \A y \in S : x <= y
       IN  <<m>> \o Ascending(S \ {m})

\* allHeaders after lines.forEach
AllHeaders(lines) ==
  LET idx == Ascending({i \in 0..(Len(lines) - 1) : TocKind(Trim(lines[i + 1])) # ""})
  IN  [k \in 1..Len(idx) |->
        LET trimmed == Trim(lines[idx[k] + 1])
        IN  [id        |-> <<TocKind(trimmed), idx[k]>>,
             text      |-> trimmed,
             level     |-> TocLevel(TocKind(trimmed)),
             lineIndex |-> idx[k]]]

\* firstArticleLineIndex after lines.forEach (-1 when no line is an article)
FirstArticleLineIndex(lines) ==
  LET arts == {i \in 0..(Len(lines) - 1) :
                 PrefixEnd(Trim(lines[i + 1]), TocNumerals, <<TIAO>>) > 0}
  IN  IF arts = {} THEN -1 ELSE CHOOSE i \in arts : \A j \in arts : i <= j

\* whether the backward scan keeps header h under the limit reached so far
KeepsHeader(h, currentLevelLimit) == h.level < currentLevelLimit

\* the scan run from the first header to the last instead of backwards
RECURSIVE PruneLoop_forward(_, _, _, _)
PruneLoop_forward(preBodyHeaders, i, keptPreHeaders, currentLevelLimit) ==
  IF i < 1 THEN keptPreHeaders
  ELSE LET header == preBodyHeaders[Len(preBodyHeaders) - i + 1]
           keep   == header.level < currentLevelLimit
           kept   == IF keep THEN Append(keptPreHeaders, header) ELSE keptPreHeaders
           limit  == IF keep THEN header.level ELSE currentLevelLimit
       IN  IF limit = LevelPart THEN kept
           ELSE PruneLoop_forward(preBodyHeaders, i - 1, kept, limit)

\* the loop for (let i = preBodyHeaders.length - 1; i >= 0; i--), entered at i
\* (1-based) with keptPreHeaders and currentLevelLimit: keptPreHeaders at its end
RECURSIVE PruneLoop(_, _, _, _)
PruneLoop(preBodyHeaders, i, keptPreHeaders, currentLevelLimit) ==
  IF i < 1 THEN keptPreHeaders
  ELSE LET header == preBodyHeaders[i]
           keep   == KeepsHeader(header, currentLevelLimit)
           kept   == IF keep THEN <<header>> \o keptPreHeaders ELSE keptPreHeaders
           limit  == IF keep THEN header.level ELSE currentLevelLimit
       IN  IF limit = LevelPart THEN kept
           ELSE PruneLoop(preBodyHeaders, i - 1, kept, limit)

\* the value the effect hands to setToc for a non-empty fullText
BuildToc(lines) ==
  LET allHeaders == AllHeaders(lines)
      first      == FirstArticleLineIndex(lines)
      postBodyHeaders == SelectSeq(allHeaders, LAMBDA h : h.lineIndex >= first)
      preBodyHeaders  == SelectSeq(allHeaders, LAMBDA h : h.lineIndex < first)
  IN  IF first = -1 THEN allHeaders
      ELSE PruneLoop(preBodyHeaders, Len(preBodyHeaders), <<>>, InitialLevelLimit)
           \o postBodyHeaders

\* fullText, truthy unless it is the empty string (whose split is one empty line)
FullTextIsEmpty == text = << <<>> >>

\* useEffect(..., [fullText])
TocEffect ==
  /\ tocPc = "idle"
  /\ tocPc' = "done"
  /\ toc' = IF FullTextIsEmpty THEN toc ELSE BuildToc(text)
  /\ UNCHANGED <<text, lineIdx, currentArticleId, currentArticleContent, isPreamble,
                 resultNodes, segPc>>
  /\ UNCHANGED <<citeVars, hoverVars, flashVars, searchVars, loadVars, otherVars, queryVars>>

-----------------------------------------------------------------------------
(* Citations: cleanLawName *)


JU       == "ju"            \* 据
GEN      == "gen"           \* 根
ZHAO     == "zhao"          \* 照
SUAN     == "suan"          \* 算
HAN      == "han"           \* 含
KUO      == "kuo"           \* 括
FAN_OFFEND == "fan_offend"  \* 犯
YI_RELY  == "yi_rely"       \* 依
YU_AT    == "yu_at"         \* 于
DUI      == "dui"           \* 对
SHI_REAL == "shi_real"      \* 实
SHI_APPLY == "shi_apply"    \* 施
BAN      == "ban"           \* 办
GUI      == "gui"           \* 规
XI       == "xi"            \* 细
ZE       == "ze"            \* 则
LI       == "li"            \* 例
DE       == "de"            \* 的

\* /^(本法|本实施条例|本办法|本规定|本条例|本细则|本规则|本办法实施细则|本解释)$/
SELF_REF_REGEX ==
  { <<BEN, FA>>,
    <<BEN, SHI_REAL, SHI_APPLY, TIAO, LI>>,
    <<BEN, BAN, FA>>,
    <<BEN, GUI, "ding">>,
    <<BEN, TIAO, LI>>,
    <<BEN, XI, ZE>>,
    <<BEN, GUI, ZE>>,
    <<BEN, BAN, FA, SHI_REAL, SHI_APPLY, XI, ZE>>,
    <<BEN, "jie_explain", "shi_explain">> }

\* 依据 根据 按照 依照 参照 违反 适用 执行 实施 履行 触犯 属于 计算 包括 包含 以及
strongSeparators ==
  << <<YI_RELY, JU>>, <<GEN, JU>>, <<"an", ZHAO>>, <<YI_RELY, ZHAO>>, <<"can", ZHAO>>,
     <<"wei_violate", "fan_oppose">>, <<"shi_fit", "yong">>, <<"zhi_hold", "xing">>,
     <<SHI_REAL, SHI_APPLY>>, <<"lv", "xing">>, <<"chu", FAN_OFFEND>>, <<"shu", YU_AT>>,
     <<"ji_count", SUAN>>, <<"bao", KUO>>, <<"bao", HAN>>, <<"yi_by", JI2>> >>

\* 关于 对于 与 和 及 向 对 为 是 在 的 于 照 算 含 括 犯
weakPrefixes ==
  << <<"guan", YU_AT>>, <<DUI, YU_AT>>, <<"yu_and">>, <<HE>>, <<JI2>>, <<"xiang">>,
     <<DUI>>, <<"wei_for">>, <<"shi_is">>, <<"zai">>, <<DE>>, <<YU_AT>>, <<ZHAO>>,
     <<SUAN>>, <<HAN>>, <<KUO>>, <<FAN_OFFEND>> >>

MinNameLen == 2
MaxNameLen == 60

\* the end of the book title that opens at p: /《[^《》]+》/ matched at p, 0 on no match
BookTitleEnd(s, p) ==
  LET e == RunEndNot(s, p + 1, {LBOOK, RBOOK})
  IN  IF p >= 1 /\ p <= Len(s) /\ s[p] = LBOOK /\ e >= p + 1 /\ HasAt(s, e + 1, <<RBOOK>>)
      THEN e + 1 ELSE 0

\* cleaned.match(/《([^《》]+)》/g): the last match with its brackets removed,
\* NULL when there is no match
LastBookTitle(s) ==
  LET ps == {p \in 1..Len(s) : BookTitleEnd(s, p) > 0}
      p  == CHOOSE q \in ps : \A r \in ps : r <= q
  IN  IF ps = {} THEN NULL ELSE Sub(s, p + 1, BookTitleEnd(s, p) - 1)

\* cleaned.split(sep).pop()?.trim() || cleaned, for a sep that cleaned includes
AfterLast(cleaned, sep) ==
  LET rest == Trim(Sub(cleaned, LastIndexOf(cleaned, sep) + Len(sep), Len(cleaned)))
  IN  IF rest = <<>> THEN cleaned ELSE rest

\* the loop over strongSeparators, from the k-th on
RECURSIVE StripStrong(_, _)
StripStrong(cleaned, k) ==
  IF k > Len(strongSeparators) THEN cleaned
  ELSE StripStrong(IF Includes(cleaned, strongSeparators[k])
                   THEN AfterLast(cleaned, strongSeparators[k]) ELSE cleaned, k + 1)

\* the while (hasChanged) loop over weakPrefixes
RECURSIVE StripWeak(_)
StripWeak(cleaned) ==
  LET ks == {k \in 1..Len(weakPrefixes) : StartsWith(cleaned, weakPrefixes[k])}
      k  == CHOOSE j \in ks : \A i \in ks : j <= i
  IN  IF ks = {} THEN cleaned
      ELSE StripWeak(Trim(Sub(cleaned, Len(weakPrefixes[k]) + 1, Len(cleaned))))

cleanLawName(raw) ==
  IF Falsy(raw) THEN NULL
  ELSE LET cleaned == Trim(raw)
           stripped == StripWeak(StripStrong(cleaned, 1))
       IN  IF LastBookTitle(cleaned) # NULL THEN LastBookTitle(cleaned)
           ELSE IF cleaned \in SELF_REF_REGEX THEN NULL
           ELSE IF Len(stripped) < MinNameLen \/ Len(stripped) > MaxNameLen THEN NULL
           ELSE stripped

-----------------------------------------------------------------------------
(* Citations: referencePattern and matchAll *)

\* (?!依照|根据|违反|适用|参照|按照|执行|属于|计算|触犯|包括|包含|以及|算|含|括|犯)
Lookahead ==
  { <<YI_RELY, ZHAO>>, <<GEN, JU>>, <<"wei_violate", "fan_oppose">>, <<"shi_fit", "yong">>,
    <<"can", ZHAO>>, <<"an", ZHAO>>, <<"zhi_hold", "xing">>, <<"shu", YU_AT>>,
    <<"ji_count", SUAN>>, <<"chu", FAN_OFFEND>>, <<"bao", KUO>>, <<"bao", HAN>>,
    <<"yi_by", JI2>>, <<SUAN>>, <<HAN>>, <<KUO>>, <<FAN_OFFEND>> }

\* [一-龥]{2,25}
MinRun == 2
MaxRun == 25

\* (第[一二三四五六七八九十百]+条(?:之一|之二)?) matched at p: the position of its
\* last character, 0 on no match
ArticleEnd(s, p) ==
  LET e == RunEnd(s, p + 1, TocNumerals)
  IN  IF p >= 1 /\ p <= Len(s) /\ s[p] = DI /\ e >= p + 1 /\ HasAt(s, e + 1, <<TIAO>>)
      THEN IF HasAt(s, e + 2, <<ZHI, "yi">>) \/ HasAt(s, e + 2, <<ZHI, "er">>)
           THEN e + 3 ELSE e + 1
      ELSE 0

\* the law-name group tried at p, in the order of the alternatives and, in the
\* third, longest run first: the position of the group's last character such
\* that the article part matches right after it, 0 when no alternative does
LawGroupEnd(s, p) ==
  LET b  == BookTitleEnd(s, p)
      ks == {k \in MinRun..Min(MaxRun, Len(s) - p) :
               /\ s[p + k] = FA
               /\ ArticleEnd(s, p + k + 1) > 0
               /\ \A j \in p..(p + k - 1) : IsCJK(s[j])}
  IN  IF b > 0 /\ ArticleEnd(s, b + 1) > 0 THEN b
      ELSE IF HasAt(s, p, <<BEN, FA>>) /\ ArticleEnd(s, p + 2) > 0 THEN p + 1
      ELSE IF (\A la \in Lookahead : ~HasAt(s, p, la)) /\ ks # {}
           THEN p + (CHOOSE k \in ks : \A j \in ks : j <= k)
      ELSE 0

\* the match of referencePattern that starts at p (ok is FALSE when there is none)
MatchAt(s, p) ==
  LET g == LawGroupEnd(s, p)
  IN  IF g > 0
      THEN [ok |-> TRUE, index |-> p, last |-> ArticleEnd(s, g + 1),
            rawLawGroup |-> Sub(s, p, g),
            articleNumber |-> Sub(s, g + 1, ArticleEnd(s, g + 1))]
      ELSE IF ArticleEnd(s, p) > 0
      THEN [ok |-> TRUE, index |-> p, last |-> ArticleEnd(s, p),
            rawLawGroup |-> NULL,
            articleNumber |-> Sub(s, p, ArticleEnd(s, p))]
      ELSE [ok |-> FALSE, index |-> p, last |-> 0, rawLawGroup |-> NULL,
            articleNumber |-> <<>>]

\* [...paragraphText.matchAll(referencePattern)], scanning from position `from`
RECURSIVE MatchAll(_, _)
MatchAll(s, from) ==
  IF from > Len(s) THEN <<>>
  ELSE LET m == MatchAt(s, from)
       IN  IF m.ok THEN <<m>> \o MatchAll(s, m.last + 1) ELSE MatchAll(s, from + 1)

-----------------------------------------------------------------------------
(* Citations: renderParagraphWithReferences *)

\* /^[、，,和及\s]+$/.test(gap)
GapIsSeparators(gap) ==
  /\ gap # <<>>
  /\ \A k \in 1..Len(gap) : gap[k] \in {DUN, FWCOMMA, COMMA, HE, JI2} \cup Whitespace

\* a prefix that is cut one character short
PrefixOf_short(rawLawGroup, currentLawName) ==
  IF /\ ~Falsy(rawLawGroup)
     /\ ~Falsy(currentLawName)
     /\ rawLawGroup # currentLawName
     /\ ~StartsWith(rawLawGroup, <<LBOOK>>)
     /\ LastIndexOf(rawLawGroup, currentLawName) > 1
  THEN Sub(rawLawGroup, 1, LastIndexOf(rawLawGroup, currentLawName) - 2)
  ELSE <<>>

\* the prefix split off the law-name group ("" when none is)
PrefixOf(rawLawGroup, currentLawName) ==
  IF /\ ~Falsy(rawLawGroup)
     /\ ~Falsy(currentLawName)
     /\ rawLawGroup # currentLawName
     /\ ~StartsWith(rawLawGroup, <<LBOOK>>)
     /\ LastIndexOf(rawLawGroup, currentLawName) > 1
  THEN Sub(rawLawGroup, 1, LastIndexOf(rawLawGroup, currentLawName) - 1)
  ELSE <<>>

\* an effectiveLawName that takes the name in context whatever lies in between
EffectiveLawName_anyGap(currentLawName, isFirst, gap, lastContextLawName) ==
  IF ~isFirst /\ Falsy(currentLawName) THEN lastContextLawName ELSE currentLawName

\* effectiveLawName of a match: its own cleaned name, or the name in context when
\* it has none and only separators lie between it and the match before it
EffectiveLawName(currentLawName, isFirst, gap, lastContextLawName) ==
  IF ~isFirst /\ Falsy(currentLawName) /\ GapIsSeparators(gap)
  THEN lastContextLawName ELSE currentLawName

\* matches.forEach from the i-th match on (1-based), with lastIndex (the number of
\* characters consumed), lastContextLawName and result as they stand; the result
\* after the trailing text has been pushed
RECURSIVE RenderFrom(_, _, _, _, _, _)
RenderFrom(para, matches, i, lastIndex, lastContextLawName, res) ==
  IF i > Len(matches)
  THEN IF lastIndex < Len(para)
       THEN Append(res, [type |-> "text", s |-> Sub(para, lastIndex + 1, Len(para))])
       ELSE res
  ELSE LET m == matches[i]
           fullMatch == Sub(para, m.index, m.last)
           currentLawName == cleanLawName(m.rawLawGroup)
           prefix == PrefixOf(m.rawLawGroup, currentLawName)
           highlightText == IF prefix # <<>> THEN currentLawName \o m.articleNumber
                            ELSE fullMatch
           gap == IF i > 1 THEN Trim(Sub(para, matches[i - 1].last + 1, m.index - 1))
                  ELSE <<>>
           effectiveLawName ==
             EffectiveLawName(currentLawName, i = 1, gap, lastContextLawName)
           context == IF ~Falsy(currentLawName) THEN currentLawName
                      ELSE IF Falsy(effectiveLawName) THEN NULL
                      ELSE lastContextLawName
           r1 == IF m.index - 1 > lastIndex
                 THEN Append(res, [type |-> "text",
                                   s |-> Sub(para, lastIndex + 1, m.index - 1)])
                 ELSE res
           r2 == IF prefix # <<>> THEN Append(r1, [type |-> "text", s |-> prefix])
                 ELSE r1
           r3 == Append(r2, [type |-> "a", index |-> m.index, last |-> m.last,
                             fullMatch |-> fullMatch,
                             rawLawGroup |-> m.rawLawGroup,
                             articleNumber |-> m.articleNumber,
                             currentLawName |-> currentLawName,
                             effectiveLawName |-> effectiveLawName,
                             highlightText |-> highlightText])
       IN  RenderFrom(para, matches, i + 1, m.last, context, r3)

renderParagraphWithReferences(para) ==
  LET matches == MatchAll(para, 1)
  IN  IF matches = <<>> THEN <<[type |-> "text", s |-> para]>>
      ELSE RenderFrom(para, matches, 1, 0, NULL, <<>>)

\* the "i" flag of the regular expression: letters compare whatever their case
Fold(c) == IF c = "A" THEN "a" ELSE c

\* whether the query matches in s at (1-based) position p
QueryAt(s, p, q) ==
  /\ p >= 1
  /\ p + Len(q) - 1 <= Len(s)
  /\ \A k \in 1..Len(q) : Fold(s[p + k - 1]) = Fold(q[k])

\* the first position from `from` on at which the query matches in s, 0 if none
FindFrom(s, q, from) ==
  LET ps == {p \in from..Len(s) : QueryAt(s, p, q)}
  IN  IF ps = {} THEN 0 ELSE CHOOSE p \in ps : \A r \in ps : p <= r

\* node.split(regex) from position pos on: the pieces between the matches and,
\* the pattern being one capture group, the matches themselves
RECURSIVE SplitFrom(_, _, _)
SplitFrom(s, q, pos) ==
  LET p == FindFrom(s, q, pos)
  IN  IF p = 0 THEN <<Sub(s, pos, Len(s))>>
      ELSE <<Sub(s, pos, p - 1), Sub(s, p, p + Len(q) - 1)>>
           \o SplitFrom(s, q, p + Len(q))

\* parts.map(...): regex.test(part) on the one global regex, whose lastIndex is
\* where the last successful test ended and 0 after a failed one; the nodes made
\* of the parts, and the lastIndex left
RECURSIVE MarkParts(_, _, _)
MarkParts(parts, q, lastIndex) ==
  IF parts = <<>> THEN [nodes |-> <<>>, lastIndex |-> lastIndex]
  ELSE LET p    == FindFrom(Head(parts), q, lastIndex + 1)
           node == [type |-> IF p > 0 THEN "mark" ELSE "text", s |-> Head(parts)]
           rest == MarkParts(Tail(parts), q, IF p > 0 THEN p + Len(q) - 1 ELSE 0)
       IN  [nodes |-> <<node>> \o rest.nodes, lastIndex |-> rest.lastIndex]

\* nodes.flatMap(...): the strings are split and marked, the elements kept
RECURSIVE HighlightNodes(_, _, _)
HighlightNodes(nodes, q, lastIndex) ==
  IF nodes = <<>> THEN <<>>
  ELSE IF Head(nodes).type = "text"
  THEN LET m == MarkParts(SplitFrom(Head(nodes).s, q, 1), q, lastIndex)
       IN  m.nodes \o HighlightNodes(Tail(nodes), q, m.lastIndex)
  ELSE <<Head(nodes)>> \o HighlightNodes(Tail(nodes), q, lastIndex)

\* highlightContent(nodes) under the debounced query
highlightContent(nodes, query) ==
  IF Trim(query) = <<>> THEN nodes ELSE HighlightNodes(nodes, query, 0)

\* the anchors among the rendered nodes, left to right
Anchors == SelectSeq(result, LAMBDA n : n.type = "a")

\* the component is rendered with a paragraph
RenderParagraph ==
  /\ citePc = "text"
  /\ citePc' = "rendered"
  /\ result' = renderParagraphWithReferences(paragraphText)
  /\ rendered' = highlightContent(renderParagraphWithReferences(paragraphText),
                                  debouncedQuery)
  /\ UNCHANGED <<law_name, paragraphText, lastEvent, openLinkCalls>>
  /\ UNCHANGED <<segVars, hoverVars, flashVars, searchVars, loadVars, otherVars, queryVars>>

\* SELF_REFERENCE_PATTERNS of fetchPopoverContent
SELF_REFERENCE_PATTERNS == SELF_REF_REGEX

\* targetLaw of fetchPopoverContent(lawNameRef, artNum)
TargetLaw(lawNameRef) ==
  IF ~Falsy(lawNameRef) /\ lawNameRef \notin SELF_REFERENCE_PATTERNS
  THEN lawNameRef ELSE NULL

\* `${targetLaw || "CURRENT"}-${artNum}`
CacheKey(targetLaw, artNum) ==
  (IF Falsy(targetLaw) THEN <<"CURRENT">> ELSE targetLaw) \o <<"-">> \o artNum

NoEvent == [type |-> "none"]

-----------------------------------------------------------------------------
(* Timed emphasis: triggerHighlight and the initial-target effect *)

FlashDuration == 2500          \* setTimeout(() => classList.remove(...), 2500)
InitialTargetDelay == 100      \* setTimeout(() => { ... }, 100)

QuanWen == <<"quan", "wen">>   \* 全文, the article number that means the whole document

\* the ids of the articles this view has rendered
ElementIds ==
  {resultNodes[n].id : n \in {k \in 1..Len(resultNodes) : resultNodes[k].kind = "article"}}

\* the ids of the headers this view has rendered (the other blocks have a key
\* and no id)
HeaderElementIds ==
  {resultNodes[n].id : n \in {k \in 1..Len(resultNodes) :
      resultNodes[k].kind \in {"part", "subpart", "chapter", "section"}}}

\* the handle of an element of the other view
OtherElement(id) == <<"other view">> \o id

\* document.getElementById(id): the first element of the document with this id,
\* an article of the other view if it has one, else one of this view, else null
getElementById(id) ==
  IF id \in otherElementIds THEN OtherElement(id)
  ELSE IF id \in ElementIds \cup HeaderElementIds THEN id
  ELSE NULL

\* onClick of a link of the table of contents: the header with the id of the
\* entry is scrolled to, if the document has one
TocLinkClick ==
  /\ segPc = "done"
  /\ tocPc = "done"
  /\ \E k \in 1..Len(toc) :
       lastEvent' = [type   |-> "toc",
                     id     |-> toc[k].id,
                     target |-> getElementById(toc[k].id)]
  /\ UNCHANGED <<law_name, paragraphText, result, rendered, citePc, openLinkCalls>>
  /\ UNCHANGED <<segVars, hoverVars, flashVars, searchVars, loadVars, otherVars, queryVars>>

\* a removal of the emphasis that comes ten times too late
HighlightTimer_late(el, t) == [kind |-> "unflash", el |-> el, at |-> t + 10 * FlashDuration]

\* the timer triggerHighlight sets at time t: the emphasis classes of el are
\* removed FlashDuration later
HighlightTimer(el, t) == [kind |-> "unflash", el |-> el, at |-> t + FlashDuration]

\* triggerHighlight(element), run now with the timers in pending outstanding: the
\* emphasis classes are added at once and their removal is scheduled
triggerHighlight(el, pending) ==
  /\ emphasised' = emphasised \cup {el}
  /\ timers' = pending \cup {HighlightTimer(el, now)}
  /\ navigatedAt' = {r \in navigatedAt : r.el # el} \cup {[el |-> el, at |-> now]}

\* the callback triggerHighlight scheduled runs
HighlightTimeout ==
  /\ \E t \in timers :
       /\ t.kind = "unflash"
       /\ t.at <= now
       /\ emphasised' = emphasised \ {t.el}
       /\ timers' = timers \ {t}
  /\ UNCHANGED <<article_number, now, navigatedAt, initialPc>>
  /\ UNCHANGED <<segVars, citeVars, hoverVars, searchVars, loadVars, otherVars, queryVars>>

\* useEffect(..., [isLoading, fullText, law.article_number]) once the text is
\* loaded and rendered
InitialTargetEffect ==
  /\ initialPc = "idle"
  /\ segPc = "done"
  /\ ~FullTextIsEmpty
  /\ IF ~Falsy(article_number) /\ article_number # QuanWen
     THEN /\ timers' = timers \cup {[kind |-> "initial", el |-> ArticleId(article_number),
                                     at |-> now + InitialTargetDelay]}
          /\ initialPc' = "scheduled"
     ELSE /\ initialPc' = "done"
          /\ UNCHANGED timers
  /\ UNCHANGED <<article_number, now, emphasised, navigatedAt>>
  /\ UNCHANGED <<segVars, citeVars, hoverVars, searchVars, loadVars, otherVars, queryVars>>

\* the callback the initial-target effect scheduled runs
InitialTargetTimer ==
  /\ \E t \in timers :
       /\ t.kind = "initial"
       /\ t.at <= now
       /\ IF getElementById(t.el) # NULL
          THEN triggerHighlight(getElementById(t.el), timers \ {t})
          ELSE /\ timers' = timers \ {t}
               /\ UNCHANGED <<emphasised, navigatedAt>>
  /\ initialPc' = "done"
  /\ UNCHANGED <<article_number, now>>
  /\ UNCHANGED <<segVars, citeVars, hoverVars, searchVars, loadVars, otherVars, queryVars>>

\* the times at which the pending timed handlers are due
DueTimes ==
  {t.at : t \in timers} \cup {t.at : t \in debounceTimers} \cup {t.at : t \in hideTimers}

\* time passes, up to the next timer that is due or by TickMs at most; a timer
\* that is due runs before the time moves on
Tick ==
  /\ now < MaxTime
  /\ \A at \in DueTimes : at > now
  /\ \E next \in {now + TickMs} \cup DueTimes :
       /\ next <= now + TickMs
       /\ \A at \in DueTimes : next <= at
       /\ now' = next
  /\ UNCHANGED <<article_number, emphasised, timers, navigatedAt, initialPc>>
  /\ UNCHANGED <<segVars, citeVars, hoverVars, searchVars, loadVars, otherVars, queryVars>>

-----------------------------------------------------------------------------
(* Citations: the anchor's onClick *)

\* isCurrentLaw of the anchor's onClick
IsCurrentLaw(effectiveLawName, name) ==
  \/ Falsy(effectiveLawName)
  \/ effectiveLawName = <<BEN, FA>>
  \/ Includes(name, effectiveLawName)

\* the anchor's onClick: a citation taken for the current document is scrolled to
\* and emphasised if its article is on the page; any other click does nothing
AnchorClick ==
  /\ citePc = "rendered"
  /\ Cardinality(timers) < MaxTimers
  /\ \E i \in 1..Len(Anchors) :
       LET a == Anchors[i]
           isCurrentLaw == IsCurrentLaw(a.effectiveLawName, law_name)
           targetId == ArticleId(a.articleNumber)
       IN  /\ lastEvent' = [type |-> "click", anchor |-> i,
                            isCurrentLaw |-> isCurrentLaw,
                            targetId |-> IF isCurrentLaw THEN targetId ELSE NULL]
           /\ IF isCurrentLaw /\ getElementById(targetId) # NULL
              THEN triggerHighlight(getElementById(targetId), timers)
              ELSE UNCHANGED <<emphasised, timers, navigatedAt>>
  /\ UNCHANGED <<article_number, now, initialPc>>
  /\ UNCHANGED <<law_name, paragraphText, result, rendered, citePc, openLinkCalls>>
  /\ UNCHANGED <<segVars, hoverVars, searchVars, loadVars, otherVars, queryVars>>

-----------------------------------------------------------------------------
(* The hover tooltip: onMouseEnter, onMouseLeave, fetchPopoverContent *)

Searching     == <<"zheng zai cha zhao tiao wen...">>   \* 正在查找条文...
PreviewFailed == <<"jia zai yu lan shi bai">>           \* 加载预览失败

\* what the Content Store answers a call with, when it finds the article: the
\* article of the law asked for, or of the current law if none is named
SnippetOf(call) ==
  <<"snippet of ">>
    \o (IF call.targetLaw = NULL THEN call.currentLawName ELSE call.targetLaw)
    \o call.artNum

\* snippetCache.current.has(cacheKey)
CacheHas(cache, cacheKey) == \E e \in cache : e.key = cacheKey

\* snippetCache.current.get(cacheKey) || ""
CacheGet(cache, cacheKey) == (CHOOSE e \in cache : e.key = cacheKey).content

\* snippetCache.current.set(cacheKey, content)
CacheSet(cache, cacheKey, content) ==
  {e \in cache : e.key # cacheKey} \cup {[key |-> cacheKey, content |-> content]}

PointerOutside == [on |-> "outside"]

popoverWidth  == 384
popoverHeight == 300
padding       == 10
BelowGap      == 10    \* rect.bottom ... + 10, and rect.top ... - popoverHeight - 10
ViewportGap   == 20    \* viewportHeight - 20

\* left of the anchor's onMouseEnter, before container.scrollLeft is added;
\* l.rectWidth is even, so that rect.width / 2 is a whole number of px
ClampedLeft(l) ==
  LET left == l.rectLeft - l.containerLeft + (l.rectWidth \div 2) - (popoverWidth \div 2)
  IN  IF left < padding THEN padding
      ELSE IF left + popoverWidth > l.containerWidth - padding
           THEN l.containerWidth - popoverWidth - padding
           ELSE left

PopoverLeft(l) == ClampedLeft(l) + l.scrollLeft

\* top of the anchor's onMouseEnter
PopoverTop(l) ==
  IF l.rectBottom + popoverHeight > l.viewportHeight - ViewportGap
  THEN l.rectTop - l.containerTop + l.scrollTop - popoverHeight - BelowGap
  ELSE l.rectBottom - l.containerTop + l.scrollTop + BelowGap

HideDelay == 200    \* window.setTimeout(() => setPopoverState(...), 200)

\* the id window.setTimeout returns: one that no pending timer has
NewTimerId(ts) == CHOOSE i \in 1..(Cardinality(ts) + 1) : \A t \in ts : t.id # i

clearTimeout_none(id, ts) == ts

\* if (hideTimeoutRef.current) clearTimeout(hideTimeoutRef.current)
clearTimeout(id, ts) == {t \in ts : t.id # id}

\* hideTimeoutRef.current = window.setTimeout(..., 200): the timer set before is
\* not cleared here
SetHideTimeout ==
  LET id == NewTimerId(hideTimers)
  IN  /\ hideTimers' = hideTimers \cup {[id |-> id, setAt |-> now, at |-> now + HideDelay]}
      /\ hideTimeoutRef' = id

\* the anchor's onMouseEnter: the hide timer is cleared, the popover is placed
\* at the anchor and shown, and fetchPopoverContent runs up to its await: a
\* cached snippet is shown, any other is asked of the Content Store
AnchorMouseEnter ==
  /\ citePc = "rendered"
  /\ ShowsBody
  /\ pointer = PointerOutside
  /\ session < MaxSessions
  /\ \E i \in 1..Len(Anchors) :
       LET a == Anchors[i]
           targetLaw == TargetLaw(a.effectiveLawName)
           cacheKey == CacheKey(targetLaw, a.articleNumber)
       IN  /\ pointer' = [on |-> "anchor", i |-> i]
           /\ lastEvent' = [type |-> "hover", anchor |-> i,
                            targetLaw |-> targetLaw, cacheKey |-> cacheKey]
           /\ IF CacheHas(snippetCache, cacheKey)
              THEN /\ popoverState' = [visible |-> TRUE,
                                       content |-> CacheGet(snippetCache, cacheKey),
                                       at |-> i,
                                       top |-> PopoverTop(layout),
                                       left |-> PopoverLeft(layout)]
                   /\ UNCHANGED <<snippetCalls, requests>>
              ELSE /\ popoverState' = [visible |-> TRUE, content |-> Searching, at |-> i,
                                       top |-> PopoverTop(layout),
                                       left |-> PopoverLeft(layout)]
                   /\ snippetCalls' = Append(snippetCalls,
                        [cacheKey |-> cacheKey, targetLaw |-> targetLaw,
                         artNum |-> a.articleNumber, currentLawName |-> law_name,
                         session |-> session + 1])
                   /\ requests' = requests \cup {Len(snippetCalls) + 1}
  /\ hideTimers' = clearTimeout(hideTimeoutRef, hideTimers)
  /\ lastEnter' = now
  /\ session' = session + 1
  /\ UNCHANGED <<snippetCache, hideTimeoutRef, layout>>
  /\ UNCHANGED <<law_name, paragraphText, result, rendered, citePc, openLinkCalls>>
  /\ UNCHANGED <<segVars, flashVars, searchVars, loadVars, otherVars, queryVars>>

\* the anchor's onMouseLeave: the hide is scheduled
AnchorMouseLeave ==
  /\ pointer.on = "anchor"
  /\ pointer' = PointerOutside
  /\ SetHideTimeout
  /\ UNCHANGED <<popoverState, layout, snippetCache, snippetCalls, requests, lastEnter, session>>
  /\ UNCHANGED <<segVars, citeVars, flashVars, searchVars, loadVars, otherVars, queryVars>>

\* CustomPopover onMouseEnter: the hide timer is cleared
PopoverMouseEnter ==
  /\ pointer = PointerOutside
  /\ popoverState.visible
  /\ pointer' = [on |-> "popover"]
  /\ hideTimers' = clearTimeout(hideTimeoutRef, hideTimers)
  /\ lastEnter' = now
  /\ UNCHANGED <<popoverState, layout, snippetCache, snippetCalls, requests, hideTimeoutRef, session>>
  /\ UNCHANGED <<segVars, citeVars, flashVars, searchVars, loadVars, otherVars, queryVars>>

\* CustomPopover onMouseLeave: the hide is scheduled
PopoverMouseLeave ==
  /\ pointer.on = "popover"
  /\ pointer' = PointerOutside
  /\ SetHideTimeout
  /\ UNCHANGED <<popoverState, layout, snippetCache, snippetCalls, requests, lastEnter, session>>
  /\ UNCHANGED <<segVars, citeVars, flashVars, searchVars, loadVars, otherVars, queryVars>>

\* a hide timer that is due runs: the popover is hidden, which ends the tooltip
\* session
HideTimeout ==
  /\ \E t \in hideTimers :
       /\ t.at <= now
       /\ hideTimers' = hideTimers \ {t}
  /\ popoverState' = [popoverState EXCEPT !.visible = FALSE]
  /\ session' = session + 1
  /\ UNCHANGED <<pointer, layout, snippetCache, snippetCalls, requests, hideTimeoutRef, lastEnter>>
  /\ UNCHANGED <<segVars, citeVars, flashVars, searchVars, loadVars, otherVars, queryVars>>

\* getArticleSnippet resolves (with the snippet, or with the failure text its own
\* catch returns) and fetchPopoverContent goes on after its await: the content
\* is cached and, if a popover is visible, shown in it
SnippetResponse ==
  /\ \E id \in requests :
       \E content \in {SnippetOf(snippetCalls[id]), PreviewFailed} :
         /\ requests' = requests \ {id}
         /\ snippetCache' = CacheSet(snippetCache, snippetCalls[id].cacheKey, content)
         /\ popoverState' = IF popoverState.visible
                            THEN [popoverState EXCEPT !.content = content]
                            ELSE popoverState
  /\ UNCHANGED <<pointer, layout, snippetCalls, hideTimeoutRef, hideTimers, lastEnter, session>>
  /\ UNCHANGED <<segVars, citeVars, flashVars, searchVars, loadVars, otherVars, queryVars>>

-----------------------------------------------------------------------------
(* In-page search: the query effect, scrollToMatch, next and previous *)

\* a navigation that stops at the ends instead of wrapping
TargetIndex_clamped(index, n) ==
  IF index >= n THEN n - 1 ELSE IF index < 0 THEN 0 ELSE index

\* targetIndex of scrollToMatch(index) with n matches on the page
TargetIndex(index, n) ==
  IF index < 0 THEN n - 1 ELSE IF index >= n THEN 0 ELSE index

\* scrollToMatch(index): nothing without matches; else the target becomes the
\* current and the active match
scrollToMatch(index) ==
  IF domMatches = 0 THEN UNCHANGED <<currentMatchIndex, activeMatch, ringed>>
  ELSE /\ currentMatchIndex' = TargetIndex(index, domMatches)
       /\ activeMatch' = TargetIndex(index, domMatches)
       /\ ringed' = ringed \cup {TargetIndex(index, domMatches)}

\* nothing, a space, 总, 法: what is typed into the search input
Queries == {<<>>, <<SP>>, <<ZONG>>, <<FA>>}

DebounceDelay == 300     \* useDebounce(searchQuery, 300)

\* the render under the new debounced query q, which has n matches in the body,
\* and useEffect(..., [debouncedQuery])
DebouncedQueryChanges(q, n) ==
  /\ debouncedQuery' = q
  /\ bodyMatches' = n
  /\ domMatches' = otherMatches + (IF ShowsBody THEN n ELSE 0)
  /\ activeMatch' = -1
  /\ ringed' = {}
  /\ IF Falsy(q)
     THEN /\ matchCount' = 0
          /\ currentMatchIndex' = 0
          /\ UNCHANGED searchTimers
     ELSE /\ searchTimers' = searchTimers + 1
          /\ UNCHANGED <<matchCount, currentMatchIndex>>
  /\ lastNav' = [op |-> "none", from |-> 0, streak |-> 0]

\* a query is typed and stays for the delay of the debounce: the debounced
\* query changes and the page is rendered with the n matches of the new query
\* (none for a blank query)
QueryEffect ==
  /\ searchTimers < MaxSearchTimers
  /\ debounceTimers = {}
  /\ \E q \in Queries \ {debouncedQuery}, n \in 0..MaxMatches :
       /\ Trim(q) = <<>> => n = 0
       /\ searchQuery' = q
       /\ DebouncedQueryChanges(q, n)
  /\ UNCHANGED <<debounceTimers, lastKeystroke>>
  /\ UNCHANGED <<segVars, citeVars, hoverVars, flashVars, loadVars, otherVars>>

\* a useDebounce whose effect has no cleanup
SetSearchQuery_noCleanup(v) ==
  /\ searchQuery' = v
  /\ lastKeystroke' = now
  /\ debounceTimers' = debounceTimers \cup {[value |-> v, at |-> now + DebounceDelay]}

\* setSearchQuery(v) with a new value, and the effect of useDebounce on it: the
\* cleanup clears the handler of the value before, and a new one is set
SetSearchQuery(v) ==
  /\ searchQuery' = v
  /\ lastKeystroke' = now
  /\ debounceTimers' = {[value |-> v, at |-> now + DebounceDelay]}

\* onChange of the search input
SearchInputChange ==
  /\ now < TypingUntil
  /\ \E v \in Queries \ {searchQuery} : SetSearchQuery(v)
  /\ UNCHANGED <<debouncedQuery, bodyMatches>>
  /\ UNCHANGED <<segVars, citeVars, hoverVars, flashVars, searchVars, loadVars, otherVars>>

\* Escape, or the close button of the search box: setSearchQuery("")
CloseSearch ==
  /\ now < TypingUntil
  /\ searchQuery # <<>>
  /\ SetSearchQuery(<<>>)
  /\ UNCHANGED <<debouncedQuery, bodyMatches>>
  /\ UNCHANGED <<segVars, citeVars, hoverVars, flashVars, searchVars, loadVars, otherVars>>

\* a handler of useDebounce runs: setDebouncedValue(value)
DebounceTimeout ==
  /\ \E t \in debounceTimers :
       /\ t.at <= now
       /\ debounceTimers' = debounceTimers \ {t}
       /\ IF t.value = debouncedQuery
          THEN UNCHANGED <<debouncedQuery, bodyMatches, searchVars>>
          ELSE /\ searchTimers < MaxSearchTimers
               /\ \E n \in 0..MaxMatches :
                    /\ Trim(t.value) = <<>> => n = 0
                    /\ DebouncedQueryChanges(t.value, n)
  /\ UNCHANGED <<searchQuery, lastKeystroke>>
  /\ UNCHANGED <<segVars, citeVars, hoverVars, flashVars, loadVars, otherVars>>

\* the 100 ms timer of the query effect runs
QueryTimer ==
  /\ searchTimers > 0
  /\ searchTimers' = searchTimers - 1
  /\ matchCount' = domMatches
  /\ IF domMatches > 0 THEN scrollToMatch(0)
     ELSE UNCHANGED <<currentMatchIndex, activeMatch, ringed>>
  /\ lastNav' = [op |-> "none", from |-> 0, streak |-> 0]
  /\ UNCHANGED domMatches
  /\ UNCHANGED <<segVars, citeVars, hoverVars, flashVars, loadVars, otherVars, queryVars>>

\* handleNextMatch, behind a button that is disabled while matchCount is 0
handleNextMatch ==
  /\ matchCount # 0
  /\ scrollToMatch(currentMatchIndex + 1)
  /\ lastNav' = IF domMatches = 0 THEN lastNav
                ELSE [op |-> "next", from |-> currentMatchIndex,
                      streak |-> IF currentMatchIndex = 0 THEN 1
                                 ELSE IF lastNav.streak > 0 THEN lastNav.streak + 1
                                 ELSE 0]
  /\ UNCHANGED <<domMatches, matchCount, searchTimers>>
  /\ UNCHANGED <<segVars, citeVars, hoverVars, flashVars, loadVars, otherVars, queryVars>>

\* handlePrevMatch, behind a button that is disabled while matchCount is 0
handlePrevMatch ==
  /\ matchCount # 0
  /\ scrollToMatch(currentMatchIndex - 1)
  /\ lastNav' = IF domMatches = 0 THEN lastNav
                ELSE [op |-> "prev", from |-> currentMatchIndex, streak |-> 0]
  /\ UNCHANGED <<domMatches, matchCount, searchTimers>>
  /\ UNCHANGED <<segVars, citeVars, hoverVars, flashVars, loadVars, otherVars, queryVars>>


-----------------------------------------------------------------------------
(* Inputs: documents *)

MIN  == "min"    \* 民
DIAN == "dian"   \* 典
LAO  == "lao"    \* 劳
DONG == "dong"   \* 动

MinFaDian == <<MIN, FA, DIAN>>     \* 民法典
LaoDongFa == <<LAO, DONG, FA>>     \* 劳动法

LBlank    == <<>>                                    \* an empty line
LSpaces   == <<SP>>                                  \* a line of whitespace
LPart     == <<DI, "yi", BIAN, SP, ZONG>>            \* 第一编 总
LSubPart  == <<DI, "yi", FEN, BIAN, SP, ZONG>>       \* 第一分编 总
LChapter  == <<DI, "er", ZHANG, SP, ZONG>>           \* 第二章 总
LSection  == <<DI, "san", JIE, SP, ZONG>>            \* 第三节 总
LArticle1 == <<DI, "yi", TIAO, SP, ZONG>>            \* 第一条 总
LArticle2 == <<SP, DI, "shi", "er", TIAO, ZONG>>     \* an indented 第十二条总
LChapterTight == <<DI, "yi", ZHANG, ZONG>>           \* 第一章总
LArticle1000  == <<DI, "yi", "qian", TIAO, SP, ZONG>>  \* 第一千条 总
LBody     == <<ZONG, ZONG>>                          \* 总总
LSentence == <<ZONG, FWCOMMA, ZONG, "fwperiod">>     \* 总，总。
LMeta     == <<"fwlparen", ZONG, "fwrparen">>        \* （总）
LTocTitle == <<MU, SP, LU>>                          \* 目 录

\* the lines the segmenter is run on
SegLines == {LBlank, LSpaces, LPart, LChapter, LChapterTight, LArticle1, LArticle2,
             LArticle1000, LBody, LSentence, LMeta, LTocTitle}
\* the lines the pruning of the table of contents is run on
TocLines == {LPart, LSubPart, LChapter, LSection, LArticle1, LBody}


\* the sequences over S of length 1..n: what split("\n") can return
Docs(S, n) == UNION {[1..k -> S] : k \in 1..n}

\* the texts the Content Store can answer getFullText with
LoadableDocs == Docs(SegLines, MaxSegLines) \cup {<< <<>> >>}

\* useEffect(..., [law.source_file]) on mount: fetchFullText up to its await
FetchFullText ==
  /\ fetchPc = "mount"
  /\ isLoading' = TRUE
  /\ error' = NULL
  /\ fetchPc' = "inflight"
  /\ UNCHANGED docVars
  /\ UNCHANGED <<segVars, citeVars, hoverVars, flashVars, searchVars, otherVars, queryVars>>

\* getFullText resolves: setFullText(response.content)
FetchResolve ==
  /\ fetchPc = "inflight"
  /\ \E lines \in LoadableDocs :
       /\ text' = lines
       /\ tocPc' = IF lines # text THEN "idle" ELSE tocPc
  /\ fetchPc' = "resolved"
  /\ UNCHANGED <<lineIdx, currentArticleId, currentArticleContent, isPreamble,
                 resultNodes, segPc, toc>>
  /\ UNCHANGED <<isLoading, error, docVars>>
  /\ UNCHANGED <<citeVars, hoverVars, flashVars, searchVars, otherVars, queryVars>>

\* getFullText rejects: the catch sets the error message
FetchReject ==
  /\ fetchPc = "inflight"
  /\ error' = LoadFailed
  /\ fetchPc' = "rejected"
  /\ UNCHANGED <<isLoading, docVars>>
  /\ UNCHANGED <<segVars, citeVars, hoverVars, flashVars, searchVars, otherVars, queryVars>>

\* finally: setIsLoading(false); the body, if it is shown now, comes with the
\* matches of the debounced query
FetchFinally ==
  /\ fetchPc \in {"resolved", "rejected"}
  /\ isLoading' = FALSE
  /\ fetchPc' = IF fetchPc = "resolved" THEN "loaded" ELSE "failed"
  /\ UNCHANGED <<error, docVars>>
  /\ domMatches' = otherMatches + (IF Falsy(error) THEN bodyMatches ELSE 0)
  /\ UNCHANGED <<activeMatch, ringed, matchCount, currentMatchIndex, searchTimers,
                 lastNav>>
  /\ UNCHANGED <<segVars, citeVars, hoverVars, flashVars, otherVars, queryVars>>

\* the files of the documents a view can be given, and what the Content Store
\* answers getFullText with for each
SourceFiles == {"a.txt", "b.txt"}
SourceDoc(file) ==
  IF file = "a.txt" THEN <<LArticle1, LBody, LArticle2>> ELSE <<LArticle1, LSentence>>

\* the view is rendered with another law: the effect on [law.source_file] runs
\* again, up to the await of its fetchFullText; the call of the document before,
\* if it is outstanding, stays so, and fullText stays until an answer arrives
LawChange ==
  /\ changes < MaxChanges
  /\ fetchPc \in {"inflight", "loaded", "failed"}
  /\ pointer = PointerOutside
  /\ \E file \in SourceFiles \ {source_file}, name \in {MinFaDian, LaoDongFa} \ {law_name} :
       /\ source_file' = file
       /\ law_name' = name
  /\ changes' = changes + 1
  /\ staleFetches' = IF fetchPc = "inflight"
                     THEN staleFetches \cup {[id |-> changes, source |-> source_file]}
                     ELSE staleFetches
  /\ isLoading' = TRUE
  /\ error' = NULL
  /\ fetchPc' = "inflight"
  /\ domMatches' = otherMatches
  /\ UNCHANGED <<activeMatch, ringed, matchCount, currentMatchIndex, searchTimers, lastNav>>
  /\ UNCHANGED <<paragraphText, result, rendered, citePc, lastEvent, openLinkCalls>>
  /\ UNCHANGED <<segVars, hoverVars, flashVars, otherVars, queryVars>>

\* getFullText of an earlier document resolves: setFullText(response.content),
\* and the finally: setIsLoading(false)
StaleResolve ==
  /\ \E f \in staleFetches :
       /\ staleFetches' = staleFetches \ {f}
       /\ text' = SourceDoc(f.source)
       /\ tocPc' = IF SourceDoc(f.source) # text THEN "idle" ELSE tocPc
  /\ isLoading' = FALSE
  /\ domMatches' = otherMatches + (IF Falsy(error) THEN bodyMatches ELSE 0)
  /\ UNCHANGED <<lineIdx, currentArticleId, currentArticleContent, isPreamble,
                 resultNodes, segPc, toc>>
  /\ UNCHANGED <<error, fetchPc, source_file, changes>>
  /\ UNCHANGED <<activeMatch, ringed, matchCount, currentMatchIndex, searchTimers, lastNav>>
  /\ UNCHANGED <<citeVars, hoverVars, flashVars, otherVars, queryVars>>

\* getFullText of an earlier document rejects: the catch sets the error
\* message, and the finally: setIsLoading(false)
StaleReject ==
  /\ \E f \in staleFetches : staleFetches' = staleFetches \ {f}
  /\ error' = LoadFailed
  /\ isLoading' = FALSE
  /\ UNCHANGED <<fetchPc, source_file, changes>>
  /\ UNCHANGED <<segVars, citeVars, hoverVars, flashVars, searchVars, otherVars, queryVars>>

SegIdle ==
  /\ lineIdx = 0
  /\ currentArticleId = <<>>
  /\ currentArticleContent = <<>>
  /\ isPreamble = TRUE
  /\ resultNodes = <<>>
  /\ segPc = "loop"
  /\ toc = <<>>
  /\ tocPc = "idle"

CiteIdle ==
  /\ law_name = MinFaDian
  /\ paragraphText = <<>>
  /\ result = <<>>
  /\ rendered = <<>>
  /\ citePc = "off"
  /\ lastEvent = NoEvent
  /\ openLinkCalls = <<>>

\* a wide container at the top left of a tall viewport, the anchor in its middle
DefaultLayout ==
  [rectLeft |-> 400, rectWidth |-> 40, rectTop |-> 100, rectBottom |-> 120,
   containerLeft |-> 0, containerTop |-> 0, containerWidth |-> 800,
   scrollLeft |-> 0, scrollTop |-> 0, viewportHeight |-> 768]

PopoverIdle ==
  /\ pointer = PointerOutside
  /\ popoverState = [visible |-> FALSE, content |-> <<>>, at |-> 0, top |-> 0, left |-> 0]
  /\ snippetCache = {}
  /\ snippetCalls = <<>>
  /\ requests = {}
  /\ hideTimeoutRef = 0
  /\ hideTimers = {}
  /\ lastEnter = 0
  /\ session = 0

HoverIdle == PopoverIdle /\ layout = DefaultLayout

FlashIdle ==
  /\ now = 0
  /\ emphasised = {}
  /\ timers = {}
  /\ navigatedAt = {}
  /\ initialPc = "idle"

\* nothing is searched for
QueryIdle ==
  /\ searchQuery = <<>>
  /\ debouncedQuery = <<>>
  /\ debounceTimers = {}
  /\ lastKeystroke = 0
  /\ bodyMatches = 0

\* no match is rendered, counted or stepped to
MatchIdle ==
  /\ domMatches = 0
  /\ activeMatch = -1
  /\ ringed = {}
  /\ matchCount = 0
  /\ currentMatchIndex = 0
  /\ searchTimers = 0
  /\ lastNav = [op |-> "none", from |-> 0, streak |-> 0]

SearchIdle == QueryIdle /\ MatchIdle

\* the fetch has delivered the text
FirstDocument ==
  /\ source_file = "a.txt"
  /\ staleFetches = {}
  /\ changes = 0

Loaded ==
  /\ isLoading = FALSE
  /\ error = NULL
  /\ fetchPc = "loaded"
  /\ FirstDocument

\* no other view is open
SingleView ==
  /\ otherElementIds = {}
  /\ otherMatches = 0

Idle ==
  HoverIdle /\ FlashIdle /\ article_number = NULL /\ SearchIdle /\ Loaded /\ SingleView

-----------------------------------------------------------------------------
(* Specification SegSpec: the segmenter and the TOC effect on every document of
   up to MaxSegLines lines *)

SegInit == text \in Docs(SegLines, MaxSegLines) /\ SegIdle /\ CiteIdle /\ Idle
SegNext == SegLine \/ SegEnd \/ TocEffect \/ TocLinkClick
SegSpec == SegInit /\ [][SegNext]_vars

(* Specification TocSpec: the TOC effect on every document of up to MaxTocLines
   header, article and body lines *)

TocInit == text \in Docs(TocLines, MaxTocLines) /\ SegIdle /\ CiteIdle /\ Idle
TocNext == TocEffect
TocSpec == TocInit /\ [][TocNext]_vars

(* Specification LoadSpec: the view mounts, the fetch resolves with some text or
   rejects, and whatever body is shown is segmented *)

LoadInit ==
  /\ text = << <<>> >>
  /\ SegIdle
  /\ CiteIdle
  /\ HoverIdle /\ FlashIdle /\ article_number = NULL /\ SearchIdle /\ SingleView
  /\ isLoading = TRUE
  /\ error = NULL
  /\ fetchPc = "mount"
  /\ FirstDocument
LoadNext ==
  \/ FetchFullText
  \/ FetchResolve
  \/ FetchReject
  \/ FetchFinally
  \/ SegLine
  \/ SegEnd
  \/ TocEffect
LoadSpec == LoadInit /\ [][LoadNext]_vars

-----------------------------------------------------------------------------
(* Inputs: paragraphs, built of these pieces *)

PMinFaDian1 == <<LBOOK>> \o MinFaDian \o <<RBOOK, DI, "yi", TIAO>>  \* 《民法典》第一条
PArticle2   == <<DI, "er", TIAO>>                                   \* 第二条
PDun        == <<DUN>>                                              \* 、
PSpace      == <<SP>>                                               \* a space
PHe         == <<HE>>                                               \* 和
PBenFa3     == <<BEN, FA, DI, "san", TIAO>>                         \* 本法第三条
PGenJu      == <<GEN, JU>>                                          \* 根据
PLaoDongFa10 == LaoDongFa \o <<DI, "shi", TIAO>>                    \* 劳动法第十条

Pieces == {PMinFaDian1, PArticle2, PDun, PSpace, PHe, PBenFa3, PGenJu, PLaoDongFa10}

RECURSIVE Concat(_)
Concat(ss) == IF ss = <<>> THEN <<>> ELSE Head(ss) \o Concat(Tail(ss))

\* 《民法典》第一条、第二条、第二条: three citations in a row
PChain == PMinFaDian1 \o PDun \o PArticle2 \o PDun \o PArticle2

\* 对于法第一条: the law-name group 对于法 is cleaned to 法, too short a name
PDuiYuFa1 == <<DUI, YU_AT, FA, DI, "yi", TIAO>>

\* the paragraphs of up to MaxPieces pieces, the chain of three, and the
\* too-short law name alone and after a citation of 民法典
Paragraphs == {Concat(ps) : ps \in UNION {[1..k -> Pieces] : k \in 0..MaxPieces}}
              \cup {PChain, PDuiYuFa1, PMinFaDian1 \o PDun \o PDuiYuFa1}

\* the document the paragraphs stand in: 第一条 总 / 总总 / 第二条总
LSecond == PArticle2 \o <<ZONG>>
CiteDoc == <<LArticle1, LBody, LSecond>>

\* the document is loaded, segmented and rendered
CiteDocRendered ==
  /\ text = CiteDoc
  /\ lineIdx = Len(CiteDoc)
  /\ currentArticleId = <<>>
  /\ currentArticleContent = <<>>
  /\ isPreamble = FALSE
  /\ resultNodes = <<ArticleNode(ArticleId(<<DI, "yi", TIAO>>), <<LArticle1, LBody>>),
                     ArticleNode(ArticleId(PArticle2), <<LSecond>>)>>
  /\ segPc = "done"
  /\ toc = BuildToc(CiteDoc)
  /\ tocPc = "done"

(* Specification CiteSpec: every paragraph is rendered in a document titled
   民法典 or 劳动法, and one of its anchors is hovered or clicked *)

CiteInit ==
  /\ paragraphText \in Paragraphs
  /\ law_name \in {MinFaDian, LaoDongFa}
  /\ result = <<>>
  /\ rendered = <<>>
  /\ citePc = "text"
  /\ lastEvent = NoEvent
  /\ openLinkCalls = <<>>
  /\ CiteDocRendered
  /\ Idle
CiteNext ==
  \/ RenderParagraph
  \/ (lastEvent = NoEvent /\ AnchorClick)
  \/ (lastEvent = NoEvent /\ AnchorMouseEnter)
CiteSpec == CiteInit /\ [][CiteNext]_vars

\* a paragraph is on the page, rendered
ParagraphRendered(para) ==
  /\ paragraphText = para
  /\ result = renderParagraphWithReferences(para)
  /\ rendered = renderParagraphWithReferences(para)
  /\ citePc = "rendered"
  /\ lastEvent = NoEvent
  /\ openLinkCalls = <<>>

(* Specification HoverSpec: the mouse moves over the anchors of a paragraph and
   over the popover while snippet responses arrive in any order *)

\* 《民法典》第一条、本法第三条 《民法典》第一条  and  第二条 劳动法第十条
HoverParagraphs ==
  {PMinFaDian1 \o PDun \o PBenFa3 \o PSpace \o PMinFaDian1,
   PArticle2 \o PSpace \o PLaoDongFa10}

HoverInit ==
  /\ \E para \in HoverParagraphs : ParagraphRendered(para)
  /\ law_name = LaoDongFa
  /\ CiteDocRendered
  /\ Idle
HoverNext ==
  \/ AnchorMouseEnter
  \/ AnchorMouseLeave
  \/ PopoverMouseEnter
  \/ PopoverMouseLeave
  \/ HideTimeout
  \/ SnippetResponse
  \/ (hideTimers # {} /\ now < MaxHoverTime /\ Tick)
HoverSpec == HoverInit /\ [][HoverNext]_vars

(* Specification PlaceSpec: an anchor of a paragraph is hovered in containers of
   several widths and scroll positions, near the edges and in the middle, high
   and low in the viewport *)

Layouts ==
  {[rectLeft |-> rl, rectWidth |-> 40, rectTop |-> rt, rectBottom |-> rt + 20,
    containerLeft |-> cl, containerTop |-> 60, containerWidth |-> cw,
    scrollLeft |-> sl, scrollTop |-> st, viewportHeight |-> vh] :
     rl \in {260, 300, 500, 1000}, rt \in {100, 428, 429, 700},
     cl \in {0, 250}, cw \in {300, 404, 800},
     sl \in {0, 30}, st \in {1000}, vh \in {768}}

PlaceInit ==
  /\ ParagraphRendered(PArticle2 \o PSpace \o PLaoDongFa10)
  /\ law_name = LaoDongFa
  /\ CiteDocRendered
  /\ PopoverIdle
  /\ layout \in Layouts
  /\ FlashIdle /\ article_number = NULL /\ SearchIdle /\ Loaded /\ SingleView
PlaceNext ==
  \/ AnchorMouseEnter
  \/ AnchorMouseLeave
  \/ HideTimeout
  \/ (hideTimers # {} /\ now < MaxHoverTime /\ Tick)
PlaceSpec == PlaceInit /\ [][PlaceNext]_vars

(* Specification StaleSpec: the view is mounted with its document being
   fetched, and is given another document up to MaxChanges times while the
   answers of the Content Store arrive in any order *)

StaleInit ==
  /\ text = << <<>> >>
  /\ SegIdle
  /\ CiteIdle
  /\ HoverIdle /\ FlashIdle /\ article_number = NULL /\ SearchIdle /\ SingleView
  /\ isLoading = TRUE
  /\ error = NULL
  /\ fetchPc = "inflight"
  /\ FirstDocument
StaleNext ==
  \/ LawChange
  \/ (FetchResolve /\ text' = SourceDoc(source_file))
  \/ FetchReject
  \/ FetchFinally
  \/ StaleResolve
  \/ StaleReject
StaleSpec == StaleInit /\ [][StaleNext]_vars

(* Specification SwitchSpec: the citation of a paragraph is hovered, and the
   view is given another document while no tooltip is shown and no call is
   outstanding; the paragraph is in both documents *)

SwitchQuiet ==
  /\ ~popoverState.visible
  /\ requests = {}
  /\ fetchPc # "inflight"

SwitchInit ==
  /\ ParagraphRendered(PArticle2)
  /\ law_name = LaoDongFa
  /\ CiteDocRendered
  /\ Idle
SwitchNext ==
  \/ AnchorMouseEnter
  \/ AnchorMouseLeave
  \/ SnippetResponse
  \/ HideTimeout
  \/ (hideTimers # {} /\ now < MaxHoverTime /\ Tick)
  \/ (SwitchQuiet /\ LawChange)
  \/ (FetchResolve /\ text' = SourceDoc(source_file))
  \/ FetchReject
  \/ FetchFinally
SwitchSpec == SwitchInit /\ [][SwitchNext]_vars

(* Specification FlashSpec: the document opens with or without an initial
   target, citations are clicked and time passes *)

\* 第二条 《民法典》第一条 本法第三条
FlashParagraph == PArticle2 \o PSpace \o PMinFaDian1 \o PSpace \o PBenFa3

FlashInit ==
  /\ ParagraphRendered(FlashParagraph)
  /\ law_name \in {MinFaDian, LaoDongFa}
  /\ CiteDocRendered
  /\ HoverIdle
  /\ SearchIdle
  /\ FlashIdle
  /\ Loaded
  /\ SingleView
  /\ article_number \in {NULL, QuanWen, <<DI, "yi", TIAO>>, <<DI, "san", TIAO>>}
FlashNext ==
  \/ AnchorClick
  \/ InitialTargetEffect
  \/ InitialTargetTimer
  \/ HighlightTimeout
  \/ Tick
FlashSpec == FlashInit /\ [][FlashNext]_vars

(* Specification SearchSpec: queries come and go, and the matches are stepped
   through forwards and backwards *)

SearchInit ==
  /\ ParagraphRendered(FlashParagraph)
  /\ law_name = MinFaDian
  /\ CiteDocRendered
  /\ Idle
SearchNext == QueryEffect \/ QueryTimer \/ handleNextMatch \/ handlePrevMatch
SearchSpec == SearchInit /\ [][SearchNext]_vars

(* Specification ViewsSpec: the view runs next to another mounted view, one
   that may hold an article of the same number and search matches of its own;
   the view is either searched or navigated *)

ViewsInit ==
  /\ ParagraphRendered(FlashParagraph)
  /\ law_name = MinFaDian
  /\ CiteDocRendered
  /\ HoverIdle
  /\ SearchIdle
  /\ FlashIdle
  /\ Loaded
  /\ otherElementIds \in {{}, {ArticleId(<<DI, "yi", TIAO>>)}}
  /\ otherMatches \in 0..MaxOtherMatches
  /\ article_number \in {NULL, <<DI, "yi", TIAO>>}
ViewsNext ==
  \/ (SearchIdle /\ AnchorClick)
  \/ (SearchIdle /\ InitialTargetEffect)
  \/ (SearchIdle /\ InitialTargetTimer)
  \/ (SearchIdle /\ HighlightTimeout)
  \/ (SearchIdle /\ Tick)
  \/ (FlashIdle /\ lastEvent = NoEvent /\ QueryEffect)
  \/ (FlashIdle /\ lastEvent = NoEvent /\ QueryTimer)
  \/ (FlashIdle /\ lastEvent = NoEvent /\ handleNextMatch)
  \/ (FlashIdle /\ lastEvent = NoEvent /\ handlePrevMatch)
ViewsSpec == ViewsInit /\ [][ViewsNext]_vars

(* Specification MarkSpec: a header line or a paragraph of an article is rendered
   under a debounced query, and one of its anchors is clicked *)

PLatin == <<"A", "a", ZONG>>   \* Aa总

\* 第一章 总, 第一条, Aa总, 本法第三条, 和劳动法第十条, 第二条 《民法典》第一条
MarkParagraphs ==
  {LChapter, <<DI, "yi", TIAO>>, PLatin, PBenFa3, PHe \o PLaoDongFa10,
   PArticle2 \o PSpace \o PMinFaDian1}

\* nothing, a space, 总, 法, 条, a, 第三条, 劳动法第, 条 《
MarkQueries ==
  {<<>>, <<SP>>, <<ZONG>>, <<FA>>, <<TIAO>>, <<"a">>, <<DI, "san", TIAO>>,
   <<LAO, DONG, FA, DI>>, <<TIAO, SP, LBOOK>>}

MarkInit ==
  /\ paragraphText \in MarkParagraphs
  /\ law_name \in {MinFaDian, LaoDongFa}
  /\ result = <<>>
  /\ rendered = <<>>
  /\ citePc = "text"
  /\ lastEvent = NoEvent
  /\ openLinkCalls = <<>>
  /\ CiteDocRendered
  /\ HoverIdle /\ FlashIdle /\ article_number = NULL /\ MatchIdle /\ Loaded /\ SingleView
  /\ debouncedQuery \in MarkQueries
  /\ searchQuery = debouncedQuery
  /\ debounceTimers = {}
  /\ lastKeystroke = 0
  /\ bodyMatches = 0
MarkNext ==
  \/ RenderParagraph
  \/ (lastEvent = NoEvent /\ AnchorClick)
MarkSpec == MarkInit /\ [][MarkNext]_vars

(* Specification RecountSpec: the view is mounted and its document is being
   fetched while queries are typed and debounced and the matches are stepped
   through *)

\* the document that is fetched: 第一条 总 / 总总 / 第十二条总
RecountDoc == <<LArticle1, LBody, LArticle2>>

RecountInit ==
  /\ text = << <<>> >>
  /\ SegIdle
  /\ CiteIdle
  /\ HoverIdle /\ FlashIdle /\ article_number = NULL /\ SearchIdle /\ SingleView
  /\ isLoading = TRUE
  /\ error = NULL
  /\ fetchPc = "inflight"
  /\ FirstDocument
RecountNext ==
  \/ (FetchResolve /\ text' = RecountDoc)
  \/ FetchReject
  \/ FetchFinally
  \/ QueryEffect
  \/ QueryTimer
  \/ handleNextMatch
  \/ handlePrevMatch
RecountSpec == RecountInit /\ [][RecountNext]_vars

(* Specification DebounceSpec: the search input is typed into and closed while
   time passes *)

DebounceInit ==
  /\ ParagraphRendered(FlashParagraph)
  /\ law_name = MinFaDian
  /\ CiteDocRendered
  /\ HoverIdle /\ FlashIdle /\ article_number = NULL /\ MatchIdle /\ Loaded /\ SingleView
  /\ searchQuery = <<>>
  /\ debouncedQuery = <<>>
  /\ debounceTimers = {[value |-> <<>>, at |-> DebounceDelay]}
  /\ lastKeystroke = 0
  /\ bodyMatches = 0
DebounceNext ==
  \/ SearchInputChange
  \/ CloseSearch
  \/ DebounceTimeout
  \/ QueryTimer
  \/ Tick
DebounceSpec == DebounceInit /\ [][DebounceNext]_vars

-----------------------------------------------------------------------------
(* Claims on the segmenter *)

\* the lines of a sequence of nodes, in order
RECURSIVE NodeLines(_)
NodeLines(nodes) ==
  IF nodes = <<>> THEN <<>> ELSE Head(nodes).lines \o NodeLines(Tail(nodes))

\* the lines emitted so far, the open article's buffered lines last
EmittedLines == NodeLines(resultNodes) \o currentArticleContent

InputSoFar == Sub(text, 1, lineIdx)

NonBlank(l) == Trim(l) # <<>>

\* C1 (as amended): at every point of the segmentation the emitted lines, the
\* buffered article's included, are the nonblank lines read so far, each trimmed
\* of its surrounding whitespace, in their order; at the end nothing is buffered,
\* so the blocks hold every nonblank line once, trimmed, in input order.
C1_LosslessTrimmed ==
  /\ EmittedLines = [k \in 1..Len(SelectSeq(InputSoFar, NonBlank)) |->
                       Trim(SelectSeq(InputSoFar, NonBlank)[k])]
  /\ segPc = "done" => (lineIdx = Len(text) /\ NodeLines(resultNodes) = EmittedLines)

\* C1 witness: a finished segmentation that emitted a header, an article holding
\* a continuation line, and a preamble line
C1_Witness ==
  /\ segPc = "done"
  /\ \E n \in 1..Len(resultNodes) :
       resultNodes[n].kind = "article" /\ Len(resultNodes[n].lines) = 2
  /\ \E n \in 1..Len(resultNodes) : resultNodes[n].kind \in {"title", "meta"}

\* C1 as stated: the emitted lines are exactly the nonblank input lines
C1_LosslessLiteral ==
  segPc = "done" => NodeLines(resultNodes) = SelectSeq(text, NonBlank)

-----------------------------------------------------------------------------
(* Claims on the table of contents *)

\* the levels of a sequence of headers
Levels(hs) == [k \in 1..Len(hs) |-> hs[k].level]

\* the document's headers have levels 3, 2, 1, 2 in this order, an article follows
\* the level-1 header, and the first three headers stand before the first article
Levels3212 ==
  /\ Levels(AllHeaders(text)) = <<LevelSection, LevelChapter, LevelPart, LevelChapter>>
  /\ FirstArticleLineIndex(text) > AllHeaders(text)[3].lineIndex

\* C7 (as amended): with header levels [3, 2, 1, 2], the first three before the
\* first article, the TOC is exactly the level-1 header followed by the last
\* level-2 header (whether that one stands before or after the first article);
\* the level-3 and level-2 headers before the level-1 header are pruned.  Every
\* header at or after the first article is kept, in order, at the end of the TOC.
C7_PruneExample ==
  tocPc = "done" /\ ~FullTextIsEmpty =>
    /\ Levels3212 => toc = <<AllHeaders(text)[3], AllHeaders(text)[4]>>
    /\ FirstArticleLineIndex(text) # -1 =>
         LET post == SelectSeq(AllHeaders(text),
                       LAMBDA h : h.lineIndex >= FirstArticleLineIndex(text))
         IN  /\ Len(toc) >= Len(post)
             /\ Sub(toc, Len(toc) - Len(post) + 1, Len(toc)) = post

\* C7 witness: the TOC of a document with header levels [3, 2, 1, 2], all four
\* before the first article
C7_Witness ==
  /\ tocPc = "done"
  /\ Levels3212
  /\ FirstArticleLineIndex(text) > AllHeaders(text)[4].lineIndex
  /\ Len(toc) = 2

\* C7 as stated: with header levels [3, 2, 1, 2] the TOC retains the chain of
\* strictly decreasing levels 3, 2, 1 that ends at the level-1 header, in
\* original order, and the level-2 header after the first article after it
C7_ChainRetained ==
  tocPc = "done" /\ Levels3212
    /\ FirstArticleLineIndex(text) < AllHeaders(text)[4].lineIndex
  => toc = AllHeaders(text)

-----------------------------------------------------------------------------
(* Claims on citations *)

\* the separator and conjunction characters 、 ， , 和 及
C4_Separators == {DUN, FWCOMMA, COMMA, HE, JI2}

\* the text strictly between the (i-1)-th and the i-th anchor
GapBefore(i) == Sub(paragraphText, Anchors[i - 1].last + 1, Anchors[i].index - 1)

\* C4 (as amended): a citation with no law-name group takes the effective law name
\* of the citation before it iff the text between the two, trimmed of surrounding
\* whitespace, is not empty and holds only 、 ， , 和 及 and whitespace; otherwise
\* (and when it is the first citation) its law name is null, the current
\* document.  In 《民法典》第一条、第二条 both citations resolve to 民法典, and in
\* 《民法典》第一条、第二条、第二条 all three do.
C4_ContextInheritance ==
  citePc = "rendered" =>
    /\ \A i \in 1..Len(Anchors) :
         Anchors[i].rawLawGroup = NULL =>
           Anchors[i].effectiveLawName =
             IF /\ i > 1
                /\ Trim(GapBefore(i)) # <<>>
                /\ \A k \in 1..Len(GapBefore(i)) :
                     GapBefore(i)[k] \in C4_Separators \cup Whitespace
             THEN Anchors[i - 1].effectiveLawName
             ELSE NULL
    /\ paragraphText \in {PMinFaDian1 \o PDun \o PArticle2, PChain} =>
         \A i \in 1..Len(Anchors) : Anchors[i].effectiveLawName = MinFaDian

\* C4 witness: the chain of three is rendered as three anchors, the last of which
\* inherits 民法典 from an anchor that inherited it itself
C4_Witness ==
  /\ citePc = "rendered"
  /\ paragraphText = PChain
  /\ Len(Anchors) = 3
  /\ Anchors[2].rawLawGroup = NULL
  /\ Anchors[3].rawLawGroup = NULL
  /\ Anchors[3].effectiveLawName = MinFaDian

\* C4 as stated: a citation with no law-name group inherits iff the text between
\* the two matches consists only of the separator characters and whitespace
C4_InheritsIffSeparatorsOnly ==
  citePc = "rendered" =>
    \A i \in 2..Len(Anchors) :
      Anchors[i].rawLawGroup = NULL =>
        Anchors[i].effectiveLawName =
          IF /\ GapBefore(i) # <<>>
             /\ \A k \in 1..Len(GapBefore(i)) :
                  GapBefore(i)[k] \in C4_Separators \cup Whitespace
          THEN Anchors[i - 1].effectiveLawName
          ELSE NULL

\* C5 as stated: a citation whose law-name group is the self-reference marker 本法
\* resolves to the current document whatever the document's title: its click
\* navigates inside the document and its snippet request carries a null law name
C5_SelfReference ==
  /\ lastEvent.type = "click" /\ Anchors[lastEvent.anchor].rawLawGroup = <<BEN, FA>>
       => lastEvent.isCurrentLaw
  /\ lastEvent.type = "hover" /\ Anchors[lastEvent.anchor].rawLawGroup = <<BEN, FA>>
       => lastEvent.targetLaw = NULL

\* C6 as stated: 根据劳动法第十条 holds one citation, whose cleaned law name is 劳动法
C6_GenJuLaoDongFa ==
  citePc = "rendered" /\ paragraphText = PGenJu \o PLaoDongFa10 =>
    /\ Len(Anchors) = 1
    /\ Anchors[1].currentLawName = LaoDongFa

\* C10 as stated: a click on a citation that resolves to another document hands
\* the host a destination (law name and article number), and a click that
\* resolves to the current document hands it nothing
C10_CrossDocumentCallback ==
  lastEvent.type = "click" =>
    IF lastEvent.isCurrentLaw THEN openLinkCalls = <<>>
    ELSE openLinkCalls =
           <<[law_name       |-> Anchors[lastEvent.anchor].effectiveLawName,
              article_number |-> Anchors[lastEvent.anchor].articleNumber]>>

-----------------------------------------------------------------------------
(* Claims on the hover tooltip *)

\* C2 as stated: whatever the order of hovers and responses, no two
\* getArticleSnippet calls of one view are for the same (law name, article) pair
C2_OneCallPerPair ==
  \A i, j \in 1..Len(snippetCalls) :
    i # j => snippetCalls[i].cacheKey # snippetCalls[j].cacheKey

\* C3 as stated: a response whose tooltip session was superseded by a newer hover
\* on another citation changes neither the content nor the visibility of the
\* tooltip (a session superseded by a hide that still stands changes nothing in
\* the code either, the popover being invisible)
C3_StaleDiscarded ==
  [][\A id \in requests \ requests' :
       /\ snippetCalls[id].session # session
       /\ lastEvent.cacheKey # snippetCalls[id].cacheKey
       => popoverState' = popoverState]_vars

-----------------------------------------------------------------------------
(* Claims on the search navigation *)

\* C8: with n >= 1 matches, after a next or previous the current index is in
\* 0..n-1; next from the last match gives 0 and previous from 0 gives n-1; with 5
\* matches the fifth next in a row from index 0 gives 0 again, and previous from
\* 0 gives 4.
C8_Wraparound ==
  lastNav.op # "none" /\ domMatches >= 1 =>
    /\ currentMatchIndex \in 0..(domMatches - 1)
    /\ lastNav.op = "next" /\ lastNav.from = domMatches - 1 => currentMatchIndex = 0
    /\ lastNav.op = "prev" /\ lastNav.from = 0 => currentMatchIndex = domMatches - 1
    /\ lastNav.op = "next" /\ lastNav.from \in 0..(domMatches - 2)
         => currentMatchIndex = lastNav.from + 1
    /\ domMatches = 5 /\ lastNav.streak = 5 => currentMatchIndex = 0
    /\ domMatches = 5 /\ lastNav.op = "prev" /\ lastNav.from = 0 => currentMatchIndex = 4

\* C8 witness: with 5 matches, the fifth next in a row from index 0 is back at 0
C8_Witness ==
  /\ domMatches = 5
  /\ lastNav.op = "next"
  /\ lastNav.streak = 5
  /\ lastNav.from = 4
  /\ currentMatchIndex = 0

-----------------------------------------------------------------------------
(* Claims on the timed emphasis *)

\* C9: a navigation to an article (a click on a citation of the current document,
\* or the initial target) leaves the article emphasised at once, and no article
\* is emphasised once FlashDuration has passed since the last navigation to it.
C9_FlashTiming ==
  /\ [][\A r \in navigatedAt' \ navigatedAt : r.el \in emphasised']_vars
  /\ [](\A el \in emphasised :
          \E r \in navigatedAt : r.el = el /\ now <= r.at + FlashDuration)

\* C9 witness: an article navigated to is no longer emphasised now that
\* FlashDuration has passed, and another, navigated to later, still is
C9_Witness ==
  /\ \E r \in navigatedAt : now >= r.at + FlashDuration /\ r.el \notin emphasised
  /\ \E r \in navigatedAt : now < r.at + FlashDuration /\ r.el \in emphasised

-----------------------------------------------------------------------------
(* Claims on loading *)

\* nothing of a body has been rendered
NoBody == lineIdx = 0 /\ resultNodes = <<>> /\ segPc = "loop"

\* C11: while the fetch is in flight (from the effect's call until its finally has
\* run) the loading state is shown and nothing of the body is rendered; once the
\* fetch has failed the error panel is shown and nothing of the body is rendered.
C11_LoadingAndErrorBlockBody ==
  /\ fetchPc \in {"inflight", "resolved", "rejected"} => isLoading /\ NoBody
  /\ fetchPc \in {"rejected", "failed"} => error = LoadFailed /\ NoBody
  /\ ~NoBody => fetchPc = "loaded" /\ error = NULL

\* C11 witness: the fetch has failed; the error panel stands and the loading
\* state is gone
C11_Witness ==
  /\ fetchPc = "failed"
  /\ ~isLoading
  /\ error = LoadFailed
  /\ NoBody

-----------------------------------------------------------------------------
(* Claims on unresolvable law names *)

\* C12 as stated: a match whose law-name group is there, is no self-reference
\* marker and is cleaned to nothing (a result shorter than 2 or longer than 60
\* characters) is left as plain text: no anchor is rendered for it
C12_UnresolvableIsPlainText ==
  citePc = "rendered" =>
    \A i \in 1..Len(Anchors) :
      /\ Anchors[i].rawLawGroup # NULL
      /\ Trim(Anchors[i].rawLawGroup) \notin SELF_REF_REGEX
      => Anchors[i].currentLawName # NULL

-----------------------------------------------------------------------------
(* Claims on several open views *)

\* the .law-search-match elements of this view
OwnMatches == domMatches - otherMatches

\* C13: the view emphasises and scrolls to its own elements only, a click on a
\* citation of the current law whose article the view has rendered reaches that
\* article, and the match count shown and the active match are among the view's
\* own matches
C13_ViewIsolation ==
  /\ emphasised \subseteq ElementIds
  /\ \A n \in navigatedAt : n.el \in ElementIds
  /\ lastEvent # NoEvent /\ lastEvent.type = "click" /\ lastEvent.isCurrentLaw
       /\ lastEvent.targetId \in ElementIds
     => \E n \in navigatedAt : n.el = lastEvent.targetId
  /\ searchTimers = 0 => matchCount \in {0, OwnMatches}
  /\ activeMatch # -1 => activeMatch >= otherMatches

-----------------------------------------------------------------------------
(* Claims on the table of contents and the segmenter together *)

\* the indices (0-based) of the lines the segmenter opens an article at
ArticleHeaderIndices(lines) ==
  {i \in 0..(Len(lines) - 1) :
     /\ HeaderKind(Trim(lines[i + 1])) = ""
     /\ articlePattern(Trim(lines[i + 1])) # <<>>}

\* the headers the rule of C14 keeps, given the index of the first article:
\* those before it that are more senior than every later header before it, and
\* all those from it on
RuleToc(lines, first) ==
  LET all == AllHeaders(lines)
  IN  SelectSeq(all, LAMBDA h :
        \/ h.lineIndex >= first
        \/ \A k \in 1..Len(all) :
              all[k].lineIndex > h.lineIndex /\ all[k].lineIndex < first
              => h.level < all[k].level)

\* C14: once the effect has run on a document with an article header, the
\* table of contents is the headers before the first article header that are
\* more senior than every later one before it, followed by all the headers
\* after it
C14_TocConstructionRule ==
  tocPc = "done" /\ ~FullTextIsEmpty /\ ArticleHeaderIndices(text) # {}
  => toc = RuleToc(text, CHOOSE i \in ArticleHeaderIndices(text) :
                           \A j \in ArticleHeaderIndices(text) : i <= j)

\* the same rule with the first article the effect itself finds
TocFollowsRuleOnItsOwnFirstArticle ==
  tocPc = "done" /\ ~FullTextIsEmpty /\ FirstArticleLineIndex(text) # -1
  => toc = RuleToc(text, FirstArticleLineIndex(text))

\* C15: once the document is segmented and its table of contents built, every
\* header the effect collected is a header block of the segmenter with the same
\* id (kind and line index) and the other way round, and a click on a link of
\* the table of contents finds its header
C15_TocAndSegmenterAgree ==
  /\ segPc = "done" /\ tocPc = "done" /\ ~FullTextIsEmpty
     => /\ \A k \in 1..Len(toc) : toc[k].id \in HeaderElementIds
        /\ HeaderElementIds =
             {AllHeaders(text)[k].id : k \in 1..Len(AllHeaders(text))}
  /\ lastEvent # NoEvent /\ lastEvent.type = "toc" => lastEvent.target # NULL

-----------------------------------------------------------------------------
(* Claims on the articles of the segmenter *)

\* whether line i (1-based) of the text ends the article open before it: a
\* header or an article header
ClosesArticle(i) ==
  \/ HeaderKind(Trim(text[i])) # ""
  \/ articlePattern(Trim(text[i])) # <<>>

\* the lines read so far (1-based) that open an article, in order
ArticleStarts ==
  Ascending({i \in 1..lineIdx :
               HeaderKind(Trim(text[i])) = "" /\ articlePattern(Trim(text[i])) # <<>>})

\* the first line after a, among those read so far, that ends the article opened
\* at a; lineIdx + 1 when none has been read
RunLimit(a) ==
  LET ends == {i \in (a + 1)..lineIdx : ClosesArticle(i)}
  IN  IF ends = {} THEN lineIdx + 1 ELSE CHOOSE i \in ends : \A j \in ends : i <= j

\* the article opened at line a as far as it has been read: its header line and
\* the nonblank lines up to the line that ends it, all trimmed
Run(a) ==
  LET ls == SelectSeq(Sub(text, a, RunLimit(a) - 1), NonBlank)
  IN  [k \in 1..Len(ls) |-> Trim(ls[k])]

\* whether the article opened at line a has been ended
Closed(a) == RunLimit(a) <= lineIdx \/ segPc = "done"

\* the articles emitted so far, in order
EmittedArticles == SelectSeq(resultNodes, LAMBDA n : n.kind = "article")

\* C16: at every point of the segmentation the articles emitted are, in order,
\* the articles that have been ended, each once, with the id of its header and
\* its header line followed by its run of lines; the buffer holds the article
\* not yet ended and nothing else, and is empty after the last flush
C16_ArticleGroupingAndFlush ==
  LET starts == ArticleStarts
      closed == SelectSeq(starts, Closed)
  IN  /\ Len(EmittedArticles) = Len(closed)
      /\ \A k \in 1..Len(closed) :
            /\ k <= Len(EmittedArticles)
            /\ EmittedArticles[k].lines = Run(closed[k])
            /\ EmittedArticles[k].id = ArticleId(articlePattern(Trim(text[closed[k]]))[1])
      /\ IF starts # <<>> /\ ~Closed(starts[Len(starts)])
         THEN /\ currentArticleContent = Run(starts[Len(starts)])
              /\ currentArticleId =
                   ArticleId(articlePattern(Trim(text[starts[Len(starts)]]))[1])
         ELSE /\ currentArticleContent = <<>>
              /\ currentArticleId = <<>>

\* C16 witness: the segmentation has ended, and two articles were emitted, the
\* first of them with a continuation line
C16_Witness ==
  /\ segPc = "done"
  /\ Len(EmittedArticles) = 2
  /\ Len(EmittedArticles[1].lines) = 2
  /\ currentArticleContent = <<>>

-----------------------------------------------------------------------------
(* Claims on the preamble *)

PreambleKinds == {"toc-title", "meta", "title", "preamble"}

\* the blocks emitted for lines outside any article that are no headers
PlainNodes ==
  SelectSeq(resultNodes, LAMBDA n : n.kind \in PreambleKinds \cup {"orphan"})

\* whether an article header stands before line index (0-based) of the text
ArticleBefore(index) ==
  \E i \in 1..index :
    HeaderKind(Trim(text[i])) = "" /\ articlePattern(Trim(text[i])) # <<>>

\* whether a header or an article header stands before line index (0-based)
HeaderOrArticleBefore(index) == \E i \in 1..index : ClosesArticle(i)

\* C17 as stated: a line outside the headers and articles is sub-classified as
\* preamble if and only if no article header stands before it, and is an orphan
\* otherwise
C17_PreambleUntilFirstArticle ==
  \A k \in 1..Len(PlainNodes) :
    PlainNodes[k].kind \in PreambleKinds <=> ~ArticleBefore(PlainNodes[k].id[2])

\* C17 (as amended): a line outside the headers and articles is sub-classified
\* as preamble, by the chain of the four tests, if and only if neither a header
\* nor an article header stands before it; otherwise it is an orphan; the flag
\* isPreamble is up exactly as long as none has been read
C17_PreambleUntilFirstHeaderOrArticle ==
  /\ \A k \in 1..Len(PlainNodes) :
        LET n == PlainNodes[k]
        IN  IF HeaderOrArticleBefore(n.id[2])
            THEN n.kind = "orphan"
            ELSE n.kind = PreambleKind(n.lines[1], law_name)
  /\ isPreamble <=> ~HeaderOrArticleBefore(lineIdx)

\* C17 witness: the segmentation has ended with a preamble line, and with an
\* orphan that stands after a header and before any article header
C17_Witness ==
  /\ segPc = "done"
  /\ \E k \in 1..Len(PlainNodes) : PlainNodes[k].kind \in PreambleKinds
  /\ \E k \in 1..Len(PlainNodes) :
       /\ PlainNodes[k].kind = "orphan"
       /\ ~ArticleBefore(PlainNodes[k].id[2])

-----------------------------------------------------------------------------
(* Claims on the numerals of article numbers *)

\* the label an emitted article was opened under: its id without "article-"
LabelOf(node) == Sub(node.id, 2, Len(node.id))

\* C18: the header line of every article the segmenter has emitted is a line the
\* effect of the table of contents takes for an article, and its label, read as
\* a paragraph, is one citation whose article number is the label
C18_OneNumeralAlphabet ==
  \A k \in 1..Len(EmittedArticles) :
    LET node == EmittedArticles[k]
    IN  /\ PrefixEnd(node.lines[1], TocNumerals, <<TIAO>>) > 0
        /\ Len(MatchAll(LabelOf(node), 1)) = 1
        /\ MatchAll(LabelOf(node), 1)[1].articleNumber = LabelOf(node)

-----------------------------------------------------------------------------
(* Claims on the test for the current document *)

\* the test of C19 on an effective law name: empty, of the self-reference
\* lexicon, or a substring of the title of the document
TargetsCurrentDocument(effectiveLawName) ==
  \/ Falsy(effectiveLawName)
  \/ effectiveLawName \in SELF_REFERENCE_PATTERNS
  \/ Includes(law_name, effectiveLawName)

\* C19: a click takes the citation for one of the current document, and a hover
\* asks for the snippet of the current document (no target law), exactly when
\* the citation's effective law name passes the test
C19_SelfReferenceTest ==
  /\ lastEvent # NoEvent /\ lastEvent.type = "click"
     => (lastEvent.isCurrentLaw
           <=> TargetsCurrentDocument(Anchors[lastEvent.anchor].effectiveLawName))
  /\ lastEvent # NoEvent /\ lastEvent.type = "hover"
     => (lastEvent.targetLaw = NULL
           <=> TargetsCurrentDocument(Anchors[lastEvent.anchor].effectiveLawName))

\* C20: in a rendered paragraph a citation whose law-name group is a
\* self-reference marker has no effective law name or a self-reference marker
\* for one (it is one of the current document), and only a citation without a law-name group has an effective law
\* name other than its own cleaned one (an inherited one)
C20_ExplicitSelfReferenceNeverInherits ==
  citePc = "rendered" =>
    \A i \in 1..Len(Anchors) :
      /\ Anchors[i].rawLawGroup # NULL /\ Trim(Anchors[i].rawLawGroup) \in SELF_REF_REGEX
           => \/ Anchors[i].effectiveLawName = NULL
              \/ Anchors[i].effectiveLawName \in SELF_REF_REGEX
      /\ Anchors[i].effectiveLawName # Anchors[i].currentLawName
           => Anchors[i].rawLawGroup = NULL

-----------------------------------------------------------------------------
(* Claims on the rendering of a paragraph *)

\* what a rendered node shows: a string itself, an anchor its highlightText
Shown(node) == IF node.type = "a" THEN node.highlightText ELSE node.s

RECURSIVE ShownText(_)
ShownText(nodes) ==
  IF nodes = <<>> THEN <<>> ELSE Shown(Head(nodes)) \o ShownText(Tail(nodes))

\* C21: the rendered nodes of a paragraph show, one after the other, the
\* paragraph itself; the anchors stand left to right without overlap, each on
\* its match; and an anchor that does not show its whole match follows a string,
\* the prefix, that with the cleaned law name makes up the law-name group
C21_RenderingPreservesParagraph ==
  citePc = "rendered" =>
    /\ ShownText(result) = paragraphText
    /\ \A i \in 1..Len(Anchors) :
          /\ Anchors[i].fullMatch = Sub(paragraphText, Anchors[i].index, Anchors[i].last)
          /\ i > 1 => Anchors[i - 1].last < Anchors[i].index
    /\ \A k \in 1..Len(result) :
          result[k].type = "a" /\ result[k].highlightText # result[k].fullMatch
          => /\ k > 1
             /\ result[k - 1].type = "text"
             /\ result[k - 1].s \o result[k].currentLawName = result[k].rawLawGroup
             /\ result[k].highlightText =
                  result[k].currentLawName \o result[k].articleNumber

\* C21 witness: a rendered paragraph of two citations and more, one of them
\* shown without the filler that stood before its law name
C21_Witness ==
  /\ citePc = "rendered"
  /\ Len(Anchors) >= 2
  /\ \E i \in 1..Len(Anchors) : Anchors[i].highlightText # Anchors[i].fullMatch

-----------------------------------------------------------------------------
(* Claims on the match markers *)

\* the match markers among the rendered nodes
Marks == SelectSeq(rendered, LAMBDA n : n.type = "mark")

\* the number of occurrences of the query in s, counted from the left without
\* overlap
Occurrences(s, q) == (Len(SplitFrom(s, q, 1)) - 1) \div 2

\* C22: under a non-blank query the rendered paragraph shows the text it showed
\* without markers, every marker wraps one occurrence of the query and there
\* are as many markers as the shown text has occurrences, those in and across
\* the anchors included; the anchors are all there
C22_EveryMatchIsWrapped ==
  citePc = "rendered" /\ Trim(debouncedQuery) # <<>> =>
    /\ ShownText(rendered) = ShownText(result)
    /\ \A k \in 1..Len(Marks) :
          /\ Len(Marks[k].s) = Len(debouncedQuery)
          /\ QueryAt(Marks[k].s, 1, debouncedQuery)
    /\ Len(Marks) = Occurrences(ShownText(result), debouncedQuery)
    /\ SelectSeq(rendered, LAMBDA n : n.type = "a") = Anchors

-----------------------------------------------------------------------------
(* Claims on the match count *)

\* C23: once no handler of the debounce and no timer of the query effect is
\* pending, matchCount is the number of match markers the view shows; and it is
\* 0, with the current index 0, while the debounced query is empty
C23_MatchCountIsCurrent ==
  /\ debounceTimers = {} /\ searchTimers = 0 => matchCount = OwnMatches
  /\ debounceTimers = {} /\ searchTimers = 0 /\ debouncedQuery = <<>>
       => matchCount = 0 /\ currentMatchIndex = 0

(* C24 (SearchSpec): single active match. Once the count of the query has run
   and there are matches, the marker at the current match index is the active
   one, and no other marker carries a class that scrollToMatch adds for the
   active state (the ring). *)
C24_SingleActiveMatch ==
  (searchTimers = 0 /\ matchCount > 0 /\ domMatches > 0)
     => /\ activeMatch = currentMatchIndex
        /\ ringed \subseteq {activeMatch}

(* C25 (DebounceSpec): query debounce. At most one handler of useDebounce is
   pending, and whenever the debounced query changes it becomes the latest
   input value, DebounceDelay or more after the last keystroke; so a value that
   was replaced within the delay never becomes the debounced query. *)
C25_QueryDebounce ==
  /\ [](Cardinality(debounceTimers) <= 1)
  /\ [][debouncedQuery' # debouncedQuery
          => /\ debouncedQuery' = searchQuery
             /\ now >= lastKeystroke + DebounceDelay]_vars

\* a value typed after the first instant has become the debounced query
C25_Witness ==
  /\ debouncedQuery # <<>>
  /\ debouncedQuery = searchQuery
  /\ lastKeystroke > 0
  /\ debounceTimers = {}

(* C26 (HoverSpec): debounced hide. At most one hide timer is pending, and none
   while the pointer is on an anchor or on the tooltip (entering cancels the
   hide); the tooltip is hidden only by a timer that was set HideDelay or more
   before, and not before the most recent enter. *)
C26_DebouncedHide ==
  /\ [](/\ Cardinality(hideTimers) <= 1
        /\ pointer.on # "outside" => hideTimers = {})
  /\ [][(popoverState.visible /\ ~popoverState'.visible)
          => \E t \in hideTimers \ hideTimers' :
               /\ now >= t.setAt + HideDelay
               /\ t.setAt >= lastEnter]_vars

\* the tooltip was entered again after time had passed, which cancelled a hide,
\* and a later hide has run
C26_Witness ==
  /\ ~popoverState.visible
  /\ lastEnter > 0
  /\ now >= lastEnter + HideDelay
  /\ hideTimers = {}

(* C27 (PlaceSpec): tooltip placement. Once an anchor has been hovered, the
   tooltip's left, less the container's scroll offset, lies between padding and
   containerWidth - popoverWidth - padding; and the tooltip's top is 10 px below
   the anchor's bottom, unless the anchor's bottom + 300 exceeds the viewport
   height - 20: then the tooltip's bottom is 10 px above the anchor's top. *)
C27_TooltipPlacement ==
  popoverState.at # 0
    => LET offset == popoverState.left - layout.scrollLeft
           \* the tooltip's top in viewport coordinates
           y == popoverState.top - layout.scrollTop + layout.containerTop
       IN  /\ offset >= 10
           /\ offset <= layout.containerWidth - 384 - 10
           /\ IF layout.rectBottom + 300 > layout.viewportHeight - 20
              THEN y + 300 = layout.rectTop - 10
              ELSE y = layout.rectBottom + 10

(* C30 (HoverSpec): failed lookups are not cached. The failure text that
   getArticleSnippet resolves to is never the content of a snippet cache entry
   (so that a later hover on the citation asks the Content Store again). *)
C30_FailuresNotCached ==
  \A e \in snippetCache : e.content # PreviewFailed

(* C28 (StaleSpec): latest document wins. While the call for the document given
   last is outstanding the view is loading; and once no call is outstanding the
   view shows what that call brought: the text of the document given last and
   no error if it resolved, the error message if it was rejected. *)
C28_LatestDocumentWins ==
  /\ fetchPc = "inflight" => isLoading
  /\ (staleFetches = {} /\ fetchPc = "loaded")
       => ~isLoading /\ error = NULL /\ text = SourceDoc(source_file)
  /\ (staleFetches = {} /\ fetchPc = "failed")
       => ~isLoading /\ error = LoadFailed

(* C29 (SwitchSpec): no cross-document cache sharing. A snippet shown in the
   tooltip of a hovered citation is the one the Content Store gives for that
   citation under the document the view has now, never one cached for the
   document it had before. *)
C29_NoCrossDocumentSnippets ==
  (/\ popoverState.visible
   /\ lastEvent.type = "hover"
   /\ popoverState.content \notin {Searching, PreviewFailed})
    => popoverState.content =
         SnippetOf([cacheKey |-> lastEvent.cacheKey,
                    targetLaw |-> lastEvent.targetLaw,
                    artNum |-> Anchors[lastEvent.anchor].articleNumber,
                    currentLawName |-> law_name])

=============================================================================
